---- MODULE Spec2Model ----
(***************************************************************************)
(* Fraud detection service: the rule registry, the three anomaly           *)
(* detectors, the risk scorer and the combination of the rule-based score  *)
(* with the opinion of the AI oracle (FraudDetectionService and            *)
(* AIFraudAnalysisService).                                                *)
(*                                                                         *)
(* Time is Date.now() in milliseconds.  A call of an async method is a     *)
(* sequence of steps, one per stretch of code between two awaits on a      *)
(* shared resource; the synchronous code of a stretch is one step.         *)
(***************************************************************************)
EXTENDS Integers, Sequences, FiniteSets, TLC

VARIABLES
    FRAUD_RULES,   \* FraudDetectionService.FRAUD_RULES: sequence of rules
    velocity,      \* SandboxVelocity collection: key -> document or NoDoc
    txnDb,         \* Transaction collection: set of stored transactions
    clock,         \* Date.now()
    aiEnabled,     \* ENV.AI_FRAUD_ANALYSIS_ENABLED
    apiKeySet,     \* ENV.GROQ_API_KEY is not empty
    call,          \* per client: the call in progress or its outcome
    used,          \* calls and rule-management calls made so far
    ideal,         \* per key: the counter an atomic observe step would hold
    admin,         \* the caller of rule management: last call, array held
    env            \* ENV: the thresholds as loaded from process.env

vars ==
    <<FRAUD_RULES, velocity, txnDb, clock, aiEnabled, apiKeySet, call, used, ideal, admin,
      env>>

(***************************************************************************)
(* Configuration (ENV) and the fixed numbers of the code.                  *)
(***************************************************************************)
FRAUD_FLAG_THRESHOLD == 30
FRAUD_REVIEW_THRESHOLD == 50
FRAUD_BLOCK_THRESHOLD == 80
VELOCITY_WINDOW_MS == 3600000
VELOCITY_MAX_ATTEMPTS == 5
AMOUNT_ANOMALY_WINDOW_MS == 86400000
AMOUNT_ANOMALY_MULTIPLIER == 3
GEO_ANOMALY_WINDOW_MS == 86400000
GEO_ANOMALY_MAX_LOCATIONS == 2
\* AI_CONFIDENCE_THRESHOLD = parseFloat('0.7'), in hundredths
AI_CONFIDENCE_THRESHOLD_PCT == 70
VELOCITY_WEIGHT == 30
AMOUNT_WEIGHT == 25
GEO_WEIGHT == 20
LEVEL_CRITICAL == 80
LEVEL_HIGH == 60
LEVEL_MEDIUM == 40
SCORE_CAP == 100

(***************************************************************************)
(* Bounds of the model.                                                    *)
(***************************************************************************)
TickMs == 1800000      \* the clock advances in steps of this many ms
MaxTicks == 2          \* and at most this many times
MaxCalls == 1          \* calls of the client of Spec in one run
MaxMgmt == 1           \* rule-management calls in one run of Spec
MaxAdmin == 4          \* and in one run of SpecRules
MaxBatchMgmt == 2      \* and in one run of SpecBatch
MaxAIBatch == 6        \* transactions passed to batchAnalyze
MaxStatsCalls == 2     \* calls of getFraudStatistics in one run of SpecStats
MaxRules == 7          \* addFraudRule is not called on a longer registry
MaxObserved == 7       \* checkVelocityFraud calls in one run
MaxInterleaved == 6    \* and in one run of SpecVel

Min(a, b) == IF a < b THEN a ELSE b
Max(a, b) == IF a > b THEN a ELSE b
Sign(n) == IF n > 0 THEN 1 ELSE IF n < 0 THEN -1 ELSE 0

(***************************************************************************)
(* IEEE 754 binary64 arithmetic, as far as combineRiskScores needs it.     *)
(* A number is [a, e, t] and stands for a/Q + e * 2^-60/Q + t * eps, eps   *)
(* a positive infinitesimal: a/Q is the decimal value the programmer       *)
(* wrote, e the accumulated rounding error, t the sign of a second-order   *)
(* error term (it decides exact ties only).  ToDouble rounds to the        *)
(* nearest binary64 value, ties to even.  All values lie in                *)
(* 2^-8 <= |v| < 2^8 or are 0.                                             *)
(***************************************************************************)
Q == 10000

RECURSIVE Pow2(_)
Pow2(n) == IF n = 0 THEN 1 ELSE 2 * Pow2(n - 1)

RECURSIVE Pow2Mod(_, _)
Pow2Mod(n, m) == IF n = 0 THEN 1 % m ELSE (2 * Pow2Mod(n - 1, m)) % m

\* a/Q + e*2^-60/Q + t*eps >= 2^x, for a > 0
AtLeastPow2(a, e, t, x) ==
    IF x >= 0
    THEN \/ a > Q * Pow2(x)
         \/ a = Q * Pow2(x) /\ (e > 0 \/ (e = 0 /\ t >= 0))
    ELSE \/ a * Pow2(-x) > Q
         \/ a * Pow2(-x) = Q /\ (e > 0 \/ (e = 0 /\ t >= 0))

\* the binary exponent of a positive value
Binade(a, e, t) ==
    CHOOSE x \in -8..7 : AtLeastPow2(a, e, t, x) /\ ~AtLeastPow2(a, e, t, x + 1)

\* the error term of a positive value after rounding to 53 significant bits:
\* the spacing of binary64 values in binade x is 2^(x-52), S in units 2^-60/Q
RoundMag(a, e, t) ==
    LET x == Binade(a, e, t)
        S == Q * Pow2(x + 8)
        base(k) == Pow2(k) * (((a % Q) * Pow2Mod(60 - k, Q)) % Q)
        rem == (base(x + 8) + e) % S
        odd == ((base(x + 9) + e) % (2 * S)) >= S
        up == \/ 2 * rem > S
              \/ 2 * rem = S /\ (t > 0 \/ (t = 0 /\ odd))
    IN  IF rem = 0 THEN e ELSE IF up THEN e + (S - rem) ELSE e - rem

ToDouble(v) ==
    IF v.a = 0 THEN [a |-> 0, e |-> 0, t |-> 0]
    ELSE LET s == Sign(v.a)
         IN  [a |-> v.a, e |-> s * RoundMag(s * v.a, s * v.e, s * v.t), t |-> 0]

\* the binary64 value of the decimal literal num/den
Lit(num, den) == ToDouble([a |-> (num * Q) \div den, e |-> 0, t |-> 0])

\* n * y, n an integer
IntTimes(n, y) == ToDouble([a |-> n * y.a, e |-> n * y.e, t |-> 0])

\* x * y, x within rounding error of an integer
NearIntTimes(x, y) ==
    ToDouble([a |-> (x.a \div Q) * y.a,
              e |-> (x.a \div Q) * y.e + (x.e \div Q) * y.a,
              t |-> Sign(x.e) * Sign(y.e)])

Plus(x, y) == ToDouble([a |-> x.a + y.a, e |-> x.e + y.e, t |-> 0])

FloorDiv(n, d) == (n - (n % d)) \div d

\* Math.round: floor(v + 1/2), ties towards +Infinity
MathRound(v) ==
    LET h == 2 * v.a + Q
        f == FloorDiv(h, 2 * Q)
    IN  IF h % (2 * Q) = 0 /\ v.e < 0 THEN f - 1 ELSE f

traditionalWeight == Lit(7, 10)
aiWeight == Lit(3, 10)


(***************************************************************************)
(* Data.                                                                   *)
(***************************************************************************)
StartMs == 90000000        \* Date.now() when the model starts

Merchants == {"merchant_001", "merchant_002"}
Customers == {"test@example.com"}
Keys == Merchants \X Customers

\* `vel:${merchantId}:${customerEmail}`
VelocityKey(merchantId, customerEmail) == <<merchantId, customerEmail>>

NoDoc == [present |-> FALSE, count |-> 0, expiresAt |-> 0]
Doc(count, expiresAt) == [present |-> TRUE, count |-> count, expiresAt |-> expiresAt]

\* the transactions clients submit; hour is new Date(createdAt).getHours()
Txn(amount, merchantId, hour, isNewCustomer) ==
    [amount |-> amount, customerEmail |-> "test@example.com", merchantId |-> merchantId,
     ipAddress |-> "10.0.0.9", hour |-> hour, isNewCustomer |-> isNewCustomer]

Transactions ==
    { Txn(1500000, "merchant_001", 12, FALSE),
      Txn(1500000, "merchant_001", 12, TRUE),
      Txn(600000, "merchant_001", 12, TRUE),
      Txn(600000, "merchant_001", 2, TRUE),
      Txn(25000, "merchant_002", 2, FALSE) }

NoTxn == Txn(0, "", 0, FALSE)

\* a stored transaction of the Transaction collection
Stored(merchantId, amount, status, ipAddress, createdAt) ==
    [merchantId |-> merchantId, customerEmail |-> "test@example.com", amount |-> amount,
     status |-> status, ipAddress |-> ipAddress, createdAt |-> createdAt]

\* the contents of the Transaction collection a run may start from
Histories ==
    { {},
      { Stored("merchant_001", 100000, "success", "10.0.0.1", StartMs),
        Stored("merchant_001", 200000, "success", "10.0.0.2", StartMs),
        Stored("merchant_001", 9000000, "failed", "10.0.0.3", StartMs),
        Stored("merchant_001", 8000000, "success", "10.0.0.4", 0),
        Stored("merchant_002", 7000000, "success", "", StartMs) } }

(***************************************************************************)
(* Rules.  A condition is one of a closed set of predicates; "throws" is a *)
(* caller-supplied condition that raises an error when it is evaluated.    *)
(***************************************************************************)
Rule(id, name, weight, enabled, condition) ==
    [id |-> id, name |-> name, weight |-> weight, enabled |-> enabled,
     condition |-> condition]

BuiltInRules ==
    << Rule("high_amount", "High Transaction Amount", 20, TRUE, "amount_gt_1000000"),
       Rule("multiple_failed_attempts", "Multiple Failed Attempts", 25, TRUE, "stub_false"),
       Rule("unusual_time", "Unusual Transaction Time", 15, TRUE, "unusual_hour"),
       Rule("new_customer_high_amount", "New Customer High Amount", 30, TRUE,
            "new_customer_amount_gt_500000"),
       Rule("suspicious_ip", "Suspicious IP Address", 20, TRUE, "stub_false"),
       Rule("velocity_check", "High Velocity Transactions", 25, TRUE, "stub_false") >>

ConditionThrows(condition, t) == condition = "throws"

ConditionHolds(condition, t) ==
    CASE condition = "amount_gt_1000000" -> t.amount > 1000000
      [] condition = "unusual_hour" -> t.hour < 6 \/ t.hour > 23
      [] condition = "new_customer_amount_gt_500000" ->
             t.amount > 500000 /\ t.isNewCustomer = TRUE
      [] condition = "always_true" -> TRUE
      [] OTHER -> FALSE

\* the loop over FRAUD_RULES of calculateRiskScore, from rule i on:
\* [threw, totalScore, factors]
RECURSIVE ApplyRules(_, _, _, _, _)
ApplyRules(rules, i, t, totalScore, factors) ==
    IF i > Len(rules)
    THEN [threw |-> FALSE, totalScore |-> totalScore, factors |-> factors]
    ELSE LET rule == rules[i]
         IN  IF ~rule.enabled
             THEN ApplyRules(rules, i + 1, t, totalScore, factors)
             ELSE IF ConditionThrows(rule.condition, t)
             THEN [threw |-> TRUE, totalScore |-> totalScore, factors |-> factors]
             ELSE IF ConditionHolds(rule.condition, t)
             THEN ApplyRules(rules, i + 1, t, totalScore + rule.weight,
                             Append(factors, rule.name))
             ELSE ApplyRules(rules, i + 1, t, totalScore, factors)

(***************************************************************************)
(* The anomaly detectors, given the answer of the data store.              *)
(***************************************************************************)
RECURSIVE SumAmounts(_)
SumAmounts(S) ==
    IF S = {} THEN 0
    ELSE LET x == CHOOSE y \in S : TRUE IN x.amount + SumAmounts(S \ {x})

MaxAmount(S) == CHOOSE m \in {x.amount : x \in S} : \A x \in S : x.amount <= m

\* variant: transactions of every status enter the statistics
AmountStatsAnyStatus(db, merchantId, now) ==
    {x \in db : /\ x.merchantId = merchantId
                /\ x.createdAt >= now - AMOUNT_ANOMALY_WINDOW_MS}

\* the $match stage of checkAmountAnomaly
AmountStats(db, merchantId, now) ==
    {x \in db : /\ x.merchantId = merchantId
                /\ x.status = "success"
                /\ x.createdAt >= now - AMOUNT_ANOMALY_WINDOW_MS}

\* variant: the comparison with the mean is not strict
AmountAnomalyInclusive(db, merchantId, amount, now) ==
    LET stats == AmountStats(db, merchantId, now)
    IN  IF stats = {} THEN FALSE
        ELSE \/ amount * Cardinality(stats) >= SumAmounts(stats) * AMOUNT_ANOMALY_MULTIPLIER
             \/ 2 * amount > 3 * MaxAmount(stats)

\* amount > avgAmount * MULTIPLIER || amount > maxAmount * 1.5, with
\* avgAmount = sum / n, compared without the division
AmountAnomaly(db, merchantId, amount, now) ==
    LET stats == AmountStats(db, merchantId, now)
    IN  IF stats = {} THEN FALSE
        ELSE \/ amount * Cardinality(stats) > SumAmounts(stats) * AMOUNT_ANOMALY_MULTIPLIER
             \/ 2 * amount > 3 * MaxAmount(stats)

RecentOfCustomer(db, customerEmail, now) ==
    {x \in db : /\ x.customerEmail = customerEmail
                /\ x.createdAt >= now - GEO_ANOMALY_WINDOW_MS}

\* variant: the location of the checked transaction is counted too
GeographicAnomalyWithCurrent(db, customerEmail, transactionLocation, now) ==
    LET recent == RecentOfCustomer(db, customerEmail, now)
        uniqueLocations == ({x.ipAddress : x \in recent} \cup {transactionLocation}) \ {""}
    IN  IF recent = {} THEN FALSE
        ELSE Cardinality(uniqueLocations) > GEO_ANOMALY_MAX_LOCATIONS

GeographicAnomaly(db, customerEmail, transactionLocation, now) ==
    LET recent == RecentOfCustomer(db, customerEmail, now)
        uniqueLocations == {x.ipAddress : x \in recent} \ {""}
    IN  IF recent = {} THEN FALSE
        ELSE Cardinality(uniqueLocations) > GEO_ANOMALY_MAX_LOCATIONS

\* variant: a failed query counts as an anomaly
CheckAmountAnomalyFailClosed(db, merchantId, amount, now, ok) ==
    ~ok \/ AmountAnomaly(db, merchantId, amount, now)

\* checkAmountAnomaly with its try/catch: ok, the aggregate query answers
CheckAmountAnomaly(db, merchantId, amount, now, ok) ==
    IF ok THEN AmountAnomaly(db, merchantId, amount, now) ELSE FALSE

\* checkGeographicAnomaly with its try/catch: ok, the find query answers
CheckGeographicAnomaly(db, customerEmail, transactionLocation, now, ok) ==
    IF ok THEN GeographicAnomaly(db, customerEmail, transactionLocation, now)
    ELSE FALSE

(***************************************************************************)
(* Risk level, actions, combination.                                       *)
(***************************************************************************)
RiskLevel(totalScore) ==
    IF totalScore >= LEVEL_CRITICAL THEN "critical"
    ELSE IF totalScore >= LEVEL_HIGH THEN "high"
    ELSE IF totalScore >= LEVEL_MEDIUM THEN "medium"
    ELSE "low"

NoRiskScore == [score |-> 0, level |-> "none", factors |-> <<>>]

\* variant: the total is returned as it is
RiskScoreOfUncapped(totalScore, factors) ==
    [score |-> totalScore, level |-> RiskLevel(totalScore), factors |-> factors]

\* the object calculateRiskScore returns
RiskScoreOf(totalScore, factors) ==
    [score |-> Min(totalScore, SCORE_CAP), level |-> RiskLevel(totalScore),
     factors |-> factors]

\* analyzeTransaction, given the risk score
TraditionalResult(riskScore) ==
    LET isFraudulent == riskScore.score >= FRAUD_BLOCK_THRESHOLD
        flagged == riskScore.score >= FRAUD_REVIEW_THRESHOLD
    IN  [isFraudulent |-> isFraudulent, flagged |-> flagged,
         action |-> IF isFraudulent THEN "block"
                    ELSE IF flagged THEN "review"
                    ELSE IF riskScore.score >= FRAUD_FLAG_THRESHOLD THEN "flag"
                    ELSE "allow",
         reason |-> IF isFraudulent THEN "High risk score detected"
                    ELSE IF flagged THEN "Suspicious activity detected"
                    ELSE IF riskScore.score >= FRAUD_FLAG_THRESHOLD
                    THEN "Moderate risk detected"
                    ELSE ""]

(***************************************************************************)
(* Configuration.  ENV is built once, when the module is loaded, from the  *)
(* strings of process.env.  A parsed number is [nan, v]: nan for NaN.      *)
(***************************************************************************)
Num(v) == [nan |-> FALSE, v |-> v]
NaN == [nan |-> TRUE, v |-> 0]

\* the strings a threshold variable of process.env holds ("": not set)
ThresholdStrings == {"", "30", "50", "80", "-10", "120", "49.9", "abc"}

\* and AI_CONFIDENCE_THRESHOLD
ConfidenceStrings == {"", "0.7", "1.5", "-0.2", "abc"}

\* parseInt(s, 10)
ParseInt(s) ==
    CASE s = "30" -> Num(30)
      [] s = "50" -> Num(50)
      [] s = "80" -> Num(80)
      [] s = "-10" -> Num(-10)
      [] s = "120" -> Num(120)
      [] s = "49.9" -> Num(49)
      [] OTHER -> NaN

\* parseFloat(s), in hundredths
ParseFloatPct(s) ==
    CASE s = "0.7" -> Num(70)
      [] s = "1.5" -> Num(150)
      [] s = "-0.2" -> Num(-20)
      [] OTHER -> NaN

\* process.env.X || fallback
OrDefault(s, fallback) == IF s = "" THEN fallback ELSE s

NotLoaded ==
    [loaded |-> FALSE, fatal |-> FALSE, FRAUD_FLAG_THRESHOLD |-> NaN,
     FRAUD_REVIEW_THRESHOLD |-> NaN, FRAUD_BLOCK_THRESHOLD |-> NaN,
     AI_CONFIDENCE_THRESHOLD |-> NaN]

\* the object ENV for the values of process.env; there is no validation
\* and nothing that ends the process
LoadedEnv(flag, review, block, confidence) ==
    [loaded |-> TRUE, fatal |-> FALSE,
     FRAUD_FLAG_THRESHOLD |-> ParseInt(OrDefault(flag, "30")),
     FRAUD_REVIEW_THRESHOLD |-> ParseInt(OrDefault(review, "50")),
     FRAUD_BLOCK_THRESHOLD |-> ParseInt(OrDefault(block, "80")),
     AI_CONFIDENCE_THRESHOLD |-> ParseFloatPct(OrDefault(confidence, "0.7"))]

\* ENV when process.env sets none of the variables
DefaultEnv == LoadedEnv("", "", "", "")

\* score >= threshold in JavaScript: false for NaN
AtLeast(score, threshold) == ~threshold.nan /\ score >= threshold.v

\* analyzeTransaction, lines 162-176, for the thresholds of cfg
ConfiguredResult(cfg, riskScore) ==
    LET isFraudulent == AtLeast(riskScore.score, cfg.FRAUD_BLOCK_THRESHOLD)
        flagged == AtLeast(riskScore.score, cfg.FRAUD_REVIEW_THRESHOLD)
        moderate == AtLeast(riskScore.score, cfg.FRAUD_FLAG_THRESHOLD)
    IN  [isFraudulent |-> isFraudulent, flagged |-> flagged,
         action |-> IF isFraudulent THEN "block"
                    ELSE IF flagged THEN "review"
                    ELSE IF moderate THEN "flag"
                    ELSE "allow",
         reason |-> IF isFraudulent THEN "High risk score detected"
                    ELSE IF flagged THEN "Suspicious activity detected"
                    ELSE IF moderate THEN "Moderate risk detected"
                    ELSE ""]

\* an AI analysis: confidence in hundredths; factorsOk is false when
\* riskFactors or recommendations holds an entry that is not a string
NoAnalysis ==
    [defined |-> FALSE, isFraudulent |-> FALSE, confidencePct |-> 0, factorsOk |-> TRUE]
Analysis(isFraudulent, confidencePct, factorsOk) ==
    [defined |-> TRUE, isFraudulent |-> isFraudulent, confidencePct |-> confidencePct,
     factorsOk |-> factorsOk]

\* the catch block of AIFraudAnalysisService.analyzeTransaction
FallbackAnalysis == Analysis(FALSE, 0, TRUE)

\* variant: the two weights exchanged
WeightedScoreExchanged(traditionalScore, confidencePct) ==
    LET aiScore == IntTimes(100, Lit(confidencePct, 100))
        combinedScore == Plus(IntTimes(traditionalScore, aiWeight),
                              NearIntTimes(aiScore, traditionalWeight))
    IN  Min(100, Max(0, MathRound(combinedScore)))

\* combineRiskScores, lines 558-565: the combination with an analysis
WeightedScore(traditionalScore, confidencePct) ==
    LET aiScore == IntTimes(100, Lit(confidencePct, 100))
        combinedScore == Plus(IntTimes(traditionalScore, traditionalWeight),
                              NearIntTimes(aiScore, aiWeight))
    IN  Min(100, Max(0, MathRound(combinedScore)))

\* the same, computed once for the scores and confidences the runs meet
ScoreRange == -100..130
ConfidenceRange == {0, 50, 90, 100}

WeightedCombination ==
    [traditionalScore \in ScoreRange, confidencePct \in ConfidenceRange |->
        WeightedScore(traditionalScore, confidencePct)]

CombineRiskScores(traditionalScore, aiAnalysis) ==
    IF ~aiAnalysis.defined THEN traditionalScore
    ELSE WeightedCombination[traditionalScore, aiAnalysis.confidencePct]

\* variant: the AI opinion never overrides the ladder
DetermineFinalActionNoOverride(aiAnalysis, combinedScore) ==
    IF combinedScore >= FRAUD_BLOCK_THRESHOLD
    THEN [action |-> "block", reason |-> "High combined risk score"]
    ELSE IF combinedScore >= FRAUD_REVIEW_THRESHOLD
    THEN [action |-> "review", reason |-> "Elevated risk detected"]
    ELSE IF combinedScore >= FRAUD_FLAG_THRESHOLD
    THEN [action |-> "flag", reason |-> "Moderate risk detected"]
    ELSE [action |-> "allow", reason |-> "Low risk transaction"]

\* variant: the flag threshold of the plain ladder is exclusive
DetermineFinalActionExclusive(aiAnalysis, combinedScore) ==
    IF /\ aiAnalysis.defined
       /\ aiAnalysis.isFraudulent
       /\ aiAnalysis.confidencePct >= AI_CONFIDENCE_THRESHOLD_PCT
    THEN IF combinedScore >= FRAUD_BLOCK_THRESHOLD
         THEN [action |-> "block", reason |-> "AI detected high-confidence fraud"]
         ELSE IF combinedScore >= FRAUD_REVIEW_THRESHOLD
         THEN [action |-> "review", reason |-> "AI detected suspicious activity"]
         ELSE [action |-> "flag", reason |-> "AI detected potential risk"]
    ELSE IF combinedScore >= FRAUD_BLOCK_THRESHOLD
         THEN [action |-> "block", reason |-> "High combined risk score"]
         ELSE IF combinedScore >= FRAUD_REVIEW_THRESHOLD
         THEN [action |-> "review", reason |-> "Elevated risk detected"]
         ELSE IF combinedScore > FRAUD_FLAG_THRESHOLD
         THEN [action |-> "flag", reason |-> "Moderate risk detected"]
         ELSE [action |-> "allow", reason |-> "Low risk transaction"]

DetermineFinalAction(aiAnalysis, combinedScore) ==
    IF /\ aiAnalysis.defined
       /\ aiAnalysis.isFraudulent
       /\ aiAnalysis.confidencePct >= AI_CONFIDENCE_THRESHOLD_PCT
    THEN IF combinedScore >= FRAUD_BLOCK_THRESHOLD
         THEN [action |-> "block", reason |-> "AI detected high-confidence fraud"]
         ELSE IF combinedScore >= FRAUD_REVIEW_THRESHOLD
         THEN [action |-> "review", reason |-> "AI detected suspicious activity"]
         ELSE [action |-> "flag", reason |-> "AI detected potential risk"]
    ELSE IF combinedScore >= FRAUD_BLOCK_THRESHOLD
         THEN [action |-> "block", reason |-> "High combined risk score"]
         ELSE IF combinedScore >= FRAUD_REVIEW_THRESHOLD
         THEN [action |-> "review", reason |-> "Elevated risk detected"]
         ELSE IF combinedScore >= FRAUD_FLAG_THRESHOLD
         THEN [action |-> "flag", reason |-> "Moderate risk detected"]
         ELSE [action |-> "allow", reason |-> "Low risk transaction"]

\* factor.toLowerCase() of combineRiskFactors / combineRecommendations raises
\* a TypeError on an entry that is not a string
CombineThrows(aiAnalysis) == aiAnalysis.defined /\ ~aiAnalysis.factorsOk


(***************************************************************************)
(* The AI oracle: what axios.post and the parsing of its answer give.      *)
(* confidence is the number the answer states, in hundredths, or -1 when   *)
(* it states none (or no number).                                          *)
(***************************************************************************)
Response(kind, isFraudulent, confidence, factorsOk) ==
    [kind |-> kind, isFraudulent |-> isFraudulent, confidence |-> confidence,
     factorsOk |-> factorsOk]

Responses ==
    {Response("error", FALSE, -1, TRUE)}
    \cup {Response("json", f, c, TRUE) : f \in BOOLEAN, c \in {-1, 50, 90, 150}}
    \cup {Response("json", TRUE, 90, FALSE)}
    \cup {Response("text", f, -1, TRUE) : f \in BOOLEAN}

\* parseAIResponse: Math.max(0, Math.min(1, Number(parsed.confidence) || 0))
ParseAIResponse(resp) ==
    Analysis(resp.isFraudulent,
             Max(0, Min(100, IF resp.confidence = -1 THEN 0 ELSE resp.confidence)),
             resp.factorsOk)

\* parseTextResponse: the scanned number clamped to [0,1], 0.5 when none is
\* found; the factor and recommendation lists hold strings of the scanner
ParseTextResponse(resp) ==
    Analysis(resp.isFraudulent,
             IF resp.confidence = -1 THEN 50 ELSE Max(0, Min(100, resp.confidence)),
             TRUE)

\* the axios call and the parse succeed
OracleSucceeds(resp) == apiKeySet /\ resp.kind # "error"

\* AIFraudAnalysisService.analyzeTransaction
AIAnalyzeTransaction(resp) ==
    IF ~aiEnabled \/ ~apiKeySet \/ resp.kind = "error" THEN FallbackAnalysis
    ELSE IF resp.kind = "json" THEN ParseAIResponse(resp)
    ELSE ParseTextResponse(resp)

(***************************************************************************)
(* Calls.  call[p] is the activation record of client p's call.            *)
(***************************************************************************)
Clients == {1, 2}
NoKey == <<"", "">>

NoResult ==
    [isFraudulent |-> FALSE, flagged |-> FALSE, action |-> "none", reason |-> "",
     riskScore |-> NoRiskScore, combinedRiskScore |-> 0, aiEnhanced |-> FALSE,
     aiAnalysis |-> NoAnalysis]

\* the locals of a batch operation: its kind ("withAI", "ai"), the items,
\* the position, the results pushed so far, try or catch block, the
\* requests in flight, and whether the operation has ended
NoBatch ==
    [kind |-> "none", items |-> <<>>, i |-> 0, results |-> <<>>, stage |-> "try",
     slots |-> <<>>, finished |-> FALSE,
     range |-> [given |-> FALSE, startDate |-> 0, endDate |-> 0]]

\* the call of c is an item of a batch operation that has not ended
BatchRunning(c) == c.batch.kind # "none" /\ ~c.batch.finished

\* a quotient of two numbers, kept exact
Ratio(num, den) == [num |-> num, den |-> den]

NoStatistics ==
    [totalTransactions |-> -1, flaggedTransactions |-> 0, blockedTransactions |-> 0,
     fraudRate |-> Ratio(0, 1), averageRiskScore |-> Ratio(0, 1), topRiskFactors |-> <<>>]

IdleCall ==
    [pc |-> "idle", op |-> "none", txn |-> NoTxn, key |-> NoKey, now |-> 0,
     existing |-> NoDoc, pass |-> 0, totalScore |-> 0, factors |-> <<>>,
     storeOk |-> TRUE, velocityResult |-> FALSE, amountAnomaly |-> FALSE,
     geographicAnomaly |-> FALSE, amountOk |-> TRUE, geoOk |-> TRUE,
     observed |-> 0, raised |-> FALSE,
     riskScore |-> NoRiskScore, oracle |-> "none", result |-> NoResult,
     oracleCalls |-> 0, observations |-> 0, batch |-> NoBatch,
     statistics |-> NoStatistics]

\* the call ends with an error raised to the caller
Raise(c) == [c EXCEPT !.pc = "done", !.raised = TRUE]

\* analyzeTransaction: the result for a risk score
FraudDetectionResult(riskScore) ==
    LET t == TraditionalResult(riskScore)
    IN  [NoResult EXCEPT !.isFraudulent = t.isFraudulent, !.flagged = t.flagged,
                         !.action = t.action, !.reason = t.reason,
                         !.riskScore = riskScore]

\* analyzeTransactionWithAI, lines 109-139: the enhanced result
EnhancedResult(riskScore, aiAnalysis) ==
    LET traditionalResult == FraudDetectionResult(riskScore)
        combinedRiskScore == CombineRiskScores(riskScore.score, aiAnalysis)
        finalAction == DetermineFinalAction(aiAnalysis, combinedRiskScore)
    IN  [traditionalResult EXCEPT
            !.combinedRiskScore = combinedRiskScore,
            !.aiEnhanced = aiAnalysis.defined,
            !.aiAnalysis = aiAnalysis,
            !.action = finalAction.action,
            !.reason = finalAction.reason,
            !.riskScore = [riskScore EXCEPT !.score = combinedRiskScore]]

\* analyzeTransactionWithAI, the catch block: the fallback result
FallbackResult(riskScore) ==
    [FraudDetectionResult(riskScore) EXCEPT !.combinedRiskScore = riskScore.score,
                                            !.aiEnhanced = FALSE]

\* calculateRiskScore from the return of checkVelocityFraud on, and what
\* the caller of calculateRiskScore does with the score
AfterVelocity(c, velocityCheck, amtOk, geoOk) ==
    LET t == c.txn
        amountAnomaly == CheckAmountAnomaly(txnDb, t.merchantId, t.amount, clock, amtOk)
        geographicAnomaly ==
            CheckGeographicAnomaly(txnDb, t.customerEmail, t.ipAddress, clock, geoOk)
        totalScore == c.totalScore
                      + (IF velocityCheck THEN VELOCITY_WEIGHT ELSE 0)
                      + (IF amountAnomaly THEN AMOUNT_WEIGHT ELSE 0)
                      + (IF geographicAnomaly THEN GEO_WEIGHT ELSE 0)
        factors == c.factors
                   \o (IF velocityCheck THEN <<"High velocity transactions">> ELSE <<>>)
                   \o (IF amountAnomaly THEN <<"Amount anomaly detected">> ELSE <<>>)
                   \o (IF geographicAnomaly THEN <<"Geographic anomaly">> ELSE <<>>)
        riskScore == RiskScoreOf(totalScore, factors)
        c1 == [c EXCEPT !.velocityResult = velocityCheck,
                        !.amountAnomaly = amountAnomaly,
                        !.geographicAnomaly = geographicAnomaly,
                        !.amountOk = amtOk, !.geoOk = geoOk,
                        !.totalScore = totalScore,
                        !.factors = factors, !.riskScore = riskScore]
    IN  IF c.op = "calculateRiskScore"
        THEN [c1 EXCEPT !.pc = "done"]
        ELSE IF c.op = "analyzeTransaction"
        THEN [c1 EXCEPT !.pc = "done", !.result = FraudDetectionResult(riskScore)]
        ELSE IF c.pass = 2
        THEN [c1 EXCEPT !.pc = "done", !.result = FallbackResult(riskScore)]
        ELSE IF aiEnabled
        THEN [c1 EXCEPT !.pc = "oracle", !.oracleCalls = @ + 1]
        ELSE [c1 EXCEPT !.pc = "done", !.result = EnhancedResult(riskScore, NoAnalysis)]

\* calculateRiskScore from its start to the answer of SandboxVelocity.findOne:
\* the rule pass, then checkVelocityFraud up to its first await
StartScoring(c, findOk, amtOk, geoOk) ==
    LET r == ApplyRules(FRAUD_RULES, 1, c.txn, 0, <<>>)
        key == VelocityKey(c.txn.merchantId, c.txn.customerEmail)
        c1 == [c EXCEPT !.totalScore = r.totalScore, !.factors = r.factors,
                        !.key = key, !.now = clock]
    IN  IF r.threw THEN Raise(c)
        ELSE IF findOk THEN [c1 EXCEPT !.pc = "velWrite", !.existing = velocity[key]]
        ELSE AfterVelocity([c1 EXCEPT !.storeOk = FALSE], FALSE, amtOk, geoOk)

\* checkVelocityFraud after findOne: the counter as the call leaves it
Expired(doc, now) == ~doc.present \/ doc.expiresAt <= now

VelocityWrite(existing, stored, now) ==
    IF Expired(existing, now)
    THEN Doc(1, now + VELOCITY_WINDOW_MS)
    ELSE Doc(existing.count + 1, stored.expiresAt)

\* and its return value
VelocityVerdict(existing, now) ==
    IF Expired(existing, now) THEN FALSE
    ELSE existing.count + 1 > VELOCITY_MAX_ATTEMPTS

\* existing.save() finds no document to update
SaveFails(existing, stored, now) == ~Expired(existing, now) /\ ~stored.present

\* the counter an atomic read-increment-or-reset leaves
IdealObserve(doc, now) ==
    IF Expired(doc, now) THEN Doc(1, now + VELOCITY_WINDOW_MS)
    ELSE Doc(doc.count + 1, doc.expiresAt)


(***************************************************************************)
(* Steps of the clients' calls.  findOk, writeOk, amtOk, geoOk: the query  *)
(* or update of the data store succeeds (it raises an error otherwise).    *)
(***************************************************************************)
CallCheckVelocityFraud(p, customerEmail, merchantId, findOk) ==
    LET key == VelocityKey(merchantId, customerEmail)
        c == [IdleCall EXCEPT !.op = "checkVelocityFraud", !.pass = 1, !.key = key,
                              !.now = clock]
    IN  /\ call[p].pc = "idle"
        /\ used.calls < MaxObserved
        /\ used' = [used EXCEPT !.calls = @ + 1]
        /\ call' = [call EXCEPT ![p] =
                        IF findOk
                        THEN [c EXCEPT !.pc = "velWrite", !.existing = velocity[key]]
                        ELSE [c EXCEPT !.pc = "done", !.storeOk = FALSE]]
        /\ UNCHANGED <<FRAUD_RULES, admin, env, velocity, txnDb, clock, aiEnabled, apiKeySet, ideal>>

CallScoring(p, op, t, findOk, amtOk, geoOk) ==
    /\ call[p].pc = "idle"
    /\ used.calls < MaxCalls
    /\ used' = [used EXCEPT !.calls = @ + 1]
    /\ call' = [call EXCEPT ![p] =
                    StartScoring([IdleCall EXCEPT !.op = op, !.pass = 1, !.txn = t],
                                 findOk, amtOk, geoOk)]
    /\ UNCHANGED <<FRAUD_RULES, admin, env, velocity, txnDb, clock, aiEnabled, apiKeySet, ideal>>

CallCalculateRiskScore(p, t, findOk, amtOk, geoOk) ==
    CallScoring(p, "calculateRiskScore", t, findOk, amtOk, geoOk)

CallAnalyzeTransaction(p, t, findOk, amtOk, geoOk) ==
    CallScoring(p, "analyzeTransaction", t, findOk, amtOk, geoOk)

CallAnalyzeTransactionWithAI(p, t, findOk, amtOk, geoOk) ==
    CallScoring(p, "analyzeTransactionWithAI", t, findOk, amtOk, geoOk)

\* the findOneAndUpdate or save of checkVelocityFraud, and the code that
\* follows it up to the next await on the oracle
VelocityWriteStep(p, writeOk, amtOk, geoOk) ==
    LET c == call[p]
        k == c.key
        fails == ~writeOk \/ SaveFails(c.existing, velocity[k], c.now)
        verdict == IF fails THEN FALSE ELSE VelocityVerdict(c.existing, c.now)
        \* observed: the number of this observation in the window of its key
        c1 == [c EXCEPT !.velocityResult = verdict, !.storeOk = ~fails,
                        !.observations = IF fails THEN @ ELSE @ + 1,
                        !.observed = IF fails THEN 0
                                     ELSE IdealObserve(ideal[k], c.now).count]
    IN  /\ c.pc = "velWrite"
        /\ velocity' = IF fails THEN velocity
                       ELSE [velocity EXCEPT
                                ![k] = VelocityWrite(c.existing, velocity[k], c.now)]
        /\ ideal' = IF fails THEN ideal
                    ELSE [ideal EXCEPT ![k] = IdealObserve(ideal[k], c.now)]
        /\ call' = [call EXCEPT ![p] =
                        IF c.op = "checkVelocityFraud" THEN [c1 EXCEPT !.pc = "done"]
                        ELSE AfterVelocity(c1, verdict, amtOk, geoOk)]
        /\ UNCHANGED <<FRAUD_RULES, admin, env, txnDb, clock, aiEnabled, apiKeySet, used>>

\* variant: no catch block, the error of the combination reaches the caller
RaiseToCaller(c, findOk, amtOk, geoOk) == Raise(c)

\* variant: the catch block calls analyzeTransactionWithAI once more
RecoverWithAI(c, findOk, amtOk, geoOk) ==
    StartScoring([c EXCEPT !.pass = 1], findOk, amtOk, geoOk)

\* analyzeTransactionWithAI, the catch block: analyzeTransaction once more
RecoverWithTraditional(c, findOk, amtOk, geoOk) ==
    StartScoring([c EXCEPT !.pass = 2], findOk, amtOk, geoOk)

\* the answer of AIFraudAnalysisService.analyzeTransaction arrives
OracleStep(p, resp, findOk, amtOk, geoOk) ==
    LET c == call[p]
        aiAnalysis == AIAnalyzeTransaction(resp)
        c1 == [c EXCEPT !.oracle = IF OracleSucceeds(resp) THEN "ok" ELSE "failed"]
    IN  /\ c.pc = "oracle"
        /\ call' = [call EXCEPT ![p] =
                        IF CombineThrows(aiAnalysis)
                        THEN RecoverWithTraditional(c1, findOk, amtOk, geoOk)
                        ELSE [c1 EXCEPT !.pc = "done",
                                        !.result = EnhancedResult(c.riskScore, aiAnalysis)]]
        /\ UNCHANGED <<FRAUD_RULES, admin, env, velocity, txnDb, clock, aiEnabled, apiKeySet, used, ideal>>

\* the caller takes the outcome
Return(p) ==
    /\ call[p].pc = "done"
    /\ ~BatchRunning(call[p])
    /\ call' = [call EXCEPT ![p] = IdleCall]
    /\ UNCHANGED <<FRAUD_RULES, admin, env, velocity, txnDb, clock, aiEnabled, apiKeySet, used, ideal>>

(***************************************************************************)
(* Rule management (synchronous).                                          *)
(***************************************************************************)
\* variant: the index -1 of findIndex is used as an index, which in
\* splice and at() addresses the last entry
FindIndexOrLast(rules, ruleId) ==
    IF \E i \in 1..Len(rules) : rules[i].id = ruleId
    THEN CHOOSE i \in 1..Len(rules) :
            /\ rules[i].id = ruleId
            /\ \A j \in 1..(i - 1) : rules[j].id # ruleId
    ELSE Len(rules)

\* FRAUD_RULES.findIndex(rule => rule.id === ruleId), 0 for -1
FindIndex(rules, ruleId) ==
    IF \E i \in 1..Len(rules) : rules[i].id = ruleId
    THEN CHOOSE i \in 1..Len(rules) :
            /\ rules[i].id = ruleId
            /\ \A j \in 1..(i - 1) : rules[j].id # ruleId
    ELSE 0

\* { ...rule, ...updates }
Merge(rule, updates) ==
    [f \in DOMAIN rule |-> IF f \in DOMAIN updates THEN updates[f] ELSE rule[f]]

NewRules ==
    { Rule("", "Refund", -40, TRUE, "always_true"),
      Rule("custom_rule", "Broken", 10, TRUE, "throws") }

RuleUpdates == { <<"unusual_time", [weight |-> -15]>>, <<"no_such_rule", [weight |-> 5]>> }

\* what the caller of the rule-management operations holds: the operation
\* it called last, with its ruleId and return value, and the array that
\* getFraudRules gave it (held: "copy", an array of its own with contents
\* copy; "registry", FRAUD_RULES itself)
\* shared[k]: the index in FRAUD_RULES of the rule object that entry k of the
\* caller's array is, 0 when that object is not in the registry
NoAdmin ==
    [op |-> "none", ruleId |-> "", returned |-> FALSE, held |-> "none", copy |-> <<>>,
     shared |-> <<>>]

\* FRAUD_RULES[ruleIndex] = { ... }: a new object takes the place of the old
SharedAfterUpdate(shared, ruleIndex) ==
    [k \in DOMAIN shared |-> IF shared[k] = ruleIndex THEN 0 ELSE shared[k]]

\* FRAUD_RULES.splice(ruleIndex, 1)
SharedAfterRemove(shared, ruleIndex) ==
    [k \in DOMAIN shared |->
        IF ruleIndex = 0 THEN shared[k]
        ELSE IF shared[k] = ruleIndex THEN 0
        ELSE IF shared[k] > ruleIndex THEN shared[k] - 1
        ELSE shared[k]]

\* the management call op(ruleId) returns
Returns(op, ruleId, returned) ==
    [admin EXCEPT !.op = op, !.ruleId = ruleId, !.returned = returned]

\* id: rule.id || `rule_${Date.now()}`
NewRule(rule) ==
    [rule EXCEPT !.id = IF rule.id = "" THEN "rule_" \o ToString(clock) ELSE rule.id]

AddFraudRule(rule) ==
    /\ Len(FRAUD_RULES) < MaxRules
    /\ used.mgmt < MaxAdmin
    /\ used' = [used EXCEPT !.mgmt = @ + 1]
    /\ FRAUD_RULES' = Append(FRAUD_RULES, NewRule(rule))
    /\ admin' = Returns("addFraudRule", NewRule(rule).id, TRUE)
    /\ UNCHANGED <<env, velocity, txnDb, clock, aiEnabled, apiKeySet, call, ideal>>

UpdatedRules(rules, ruleId, updates) ==
    LET ruleIndex == FindIndex(rules, ruleId)
    IN  IF ruleIndex = 0 THEN rules
        ELSE [rules EXCEPT ![ruleIndex] = Merge(rules[ruleIndex], updates)]

UpdateFraudRule(ruleId, updates) ==
    /\ used.mgmt < MaxAdmin
    /\ used' = [used EXCEPT !.mgmt = @ + 1]
    /\ FRAUD_RULES' = UpdatedRules(FRAUD_RULES, ruleId, updates)
    /\ admin' = [Returns("updateFraudRule", ruleId, FindIndex(FRAUD_RULES, ruleId) # 0)
                    EXCEPT !.shared = SharedAfterUpdate(@, FindIndex(FRAUD_RULES, ruleId))]
    /\ UNCHANGED <<env, velocity, txnDb, clock, aiEnabled, apiKeySet, call, ideal>>

ToggleFraudRule(ruleId, enabled) ==
    /\ used.mgmt < MaxAdmin
    /\ used' = [used EXCEPT !.mgmt = @ + 1]
    /\ FRAUD_RULES' = UpdatedRules(FRAUD_RULES, ruleId, [enabled |-> enabled])
    /\ admin' = [Returns("toggleFraudRule", ruleId, FindIndex(FRAUD_RULES, ruleId) # 0)
                    EXCEPT !.shared = SharedAfterUpdate(@, FindIndex(FRAUD_RULES, ruleId))]
    /\ UNCHANGED <<env, velocity, txnDb, clock, aiEnabled, apiKeySet, call, ideal>>

RemoveFraudRule(ruleId) ==
    LET ruleIndex == FindIndex(FRAUD_RULES, ruleId)
    IN  /\ used.mgmt < MaxAdmin
        /\ used' = [used EXCEPT !.mgmt = @ + 1]
        /\ FRAUD_RULES' =
               IF ruleIndex = 0 THEN FRAUD_RULES
               ELSE SubSeq(FRAUD_RULES, 1, ruleIndex - 1)
                    \o SubSeq(FRAUD_RULES, ruleIndex + 1, Len(FRAUD_RULES))
        /\ admin' = [Returns("removeFraudRule", ruleId, ruleIndex # 0)
                        EXCEPT !.shared = SharedAfterRemove(@, ruleIndex)]
        /\ UNCHANGED <<env, velocity, txnDb, clock, aiEnabled, apiKeySet, call, ideal>>

\* variant: return this.FRAUD_RULES
GetFraudRulesAlias(rules) == [held |-> "registry", copy |-> <<>>, shared |-> <<>>]

\* return [...this.FRAUD_RULES]: a new array whose entries are the rule
\* objects of the registry
GetFraudRulesCopy(rules) ==
    [held |-> "copy", copy |-> rules, shared |-> [k \in 1..Len(rules) |-> k]]

GetFraudRules ==
    /\ used.mgmt < MaxAdmin
    /\ used' = [used EXCEPT !.mgmt = @ + 1]
    /\ admin' = [admin EXCEPT !.op = "getFraudRules", !.ruleId = "", !.returned = TRUE,
                              !.held = GetFraudRulesCopy(FRAUD_RULES).held,
                              !.copy = GetFraudRulesCopy(FRAUD_RULES).copy,
                              !.shared = GetFraudRulesCopy(FRAUD_RULES).shared]
    /\ UNCHANGED <<FRAUD_RULES, env, velocity, txnDb, clock, aiEnabled, apiKeySet, call, ideal>>

\* the entries of the array the caller holds
HeldRules == IF admin.held = "registry" THEN FRAUD_RULES ELSE admin.copy

\* what the caller does to the array it got from getFraudRules
Mutations == {"push", "pop", "reverse", "replace"}

Mutated(rules, m) ==
    CASE m = "push" -> Append(rules, Rule("pushed", "Pushed", 5, TRUE, "always_true"))
      [] m = "pop" -> SubSeq(rules, 1, Len(rules) - 1)
      [] m = "reverse" -> [i \in 1..Len(rules) |-> rules[Len(rules) + 1 - i]]
      [] m = "replace" ->
            [i \in 1..Len(rules) |->
                IF i = 1 THEN Rule("replaced", "Replaced", 5, FALSE, "stub_false")
                ELSE rules[i]]

\* which objects the entries of the array are after the mutation
MutatedShared(shared, m) ==
    CASE m = "push" -> Append(shared, 0)
      [] m = "pop" -> SubSeq(shared, 1, Len(shared) - 1)
      [] m = "reverse" -> [i \in 1..Len(shared) |-> shared[Len(shared) + 1 - i]]
      [] m = "replace" -> [i \in 1..Len(shared) |-> IF i = 1 THEN 0 ELSE shared[i]]

\* the caller pushes to, pops from, reverses or assigns into the array
MutateReturned(m) ==
    /\ admin.held # "none"
    /\ Len(HeldRules) \in 1..MaxRules
    /\ used.mgmt < MaxAdmin
    /\ used' = [used EXCEPT !.mgmt = @ + 1]
    /\ IF admin.held = "registry"
       THEN /\ FRAUD_RULES' = Mutated(FRAUD_RULES, m)
            /\ admin' = [admin EXCEPT !.op = "mutate", !.ruleId = m]
       ELSE /\ FRAUD_RULES' = FRAUD_RULES
            /\ admin' = [admin EXCEPT !.op = "mutate", !.ruleId = m,
                                      !.copy = Mutated(admin.copy, m),
                                      !.shared = MutatedShared(admin.shared, m)]
    /\ UNCHANGED <<env, velocity, txnDb, clock, aiEnabled, apiKeySet, call, ideal>>

\* what the caller assigns to a field of a rule of the array
Assignments == { [enabled |-> FALSE], [weight |-> 0] }

\* rules[k].enabled = false, rules[k].weight = 0 on the array getFraudRules
\* gave: the assignment changes the rule object, wherever it is referenced
AssignToReturned(k, updates) ==
    /\ admin.held # "none"
    /\ k \in 1..Len(HeldRules)
    /\ used.mgmt < MaxAdmin
    /\ used' = [used EXCEPT !.mgmt = @ + 1]
    /\ IF admin.held = "registry"
       THEN /\ FRAUD_RULES' = [FRAUD_RULES EXCEPT ![k] = Merge(@, updates)]
            /\ admin' = [admin EXCEPT !.op = "assign", !.ruleId = FRAUD_RULES[k].id]
       ELSE /\ FRAUD_RULES' =
                   IF admin.shared[k] = 0 THEN FRAUD_RULES
                   ELSE [FRAUD_RULES EXCEPT ![admin.shared[k]] = Merge(@, updates)]
            /\ admin' = [admin EXCEPT !.op = "assign", !.ruleId = admin.copy[k].id,
                                      !.copy = [@ EXCEPT ![k] = Merge(@, updates)]]
    /\ UNCHANGED <<env, velocity, txnDb, clock, aiEnabled, apiKeySet, call, ideal>>

(***************************************************************************)
(* The environment: time passes; MongoDB's TTL monitor deletes a counter   *)
(* whose expiresAt has passed.                                             *)
(***************************************************************************)
Tick ==
    /\ clock < StartMs + MaxTicks * TickMs
    /\ clock' = clock + TickMs
    /\ UNCHANGED <<FRAUD_RULES, admin, env, velocity, txnDb, aiEnabled, apiKeySet, call, used, ideal>>

TTLReap(k) ==
    /\ velocity[k].present
    /\ velocity[k].expiresAt <= clock
    /\ velocity' = [velocity EXCEPT ![k] = NoDoc]
    /\ UNCHANGED <<FRAUD_RULES, admin, env, txnDb, clock, aiEnabled, apiKeySet, call, used, ideal>>

(***************************************************************************)
(* Spec: one client calls the scoring and analysis operations one after    *)
(* the other, while rules are managed and time passes.  The data store     *)
(* starts with or without history and an open velocity window.             *)
(***************************************************************************)
EmptyStore == [k \in Keys |-> NoDoc]

InitialStores ==
    { EmptyStore,
      [EmptyStore EXCEPT ![<<"merchant_001", "test@example.com">>] =
            Doc(VELOCITY_MAX_ATTEMPTS, StartMs + TickMs)] }

Init ==
    /\ FRAUD_RULES = BuiltInRules
    /\ velocity \in InitialStores
    /\ ideal = velocity
    /\ txnDb \in Histories
    /\ clock = StartMs
    /\ aiEnabled \in BOOLEAN
    /\ apiKeySet \in (IF aiEnabled THEN BOOLEAN ELSE {FALSE})
    /\ call = [p \in Clients |-> IdleCall]
    /\ used = [calls |-> 0, mgmt |-> 0]
    /\ admin = NoAdmin
    /\ env = DefaultEnv

Next ==
    \/ \E t \in Transactions, findOk \in BOOLEAN :
        \* the detectors run in this step only when findOne has failed
        \E amtOk, geoOk \in (IF findOk THEN {TRUE} ELSE BOOLEAN) :
          \/ CallCalculateRiskScore(1, t, findOk, amtOk, geoOk)
          \/ CallAnalyzeTransaction(1, t, findOk, amtOk, geoOk)
          \/ CallAnalyzeTransactionWithAI(1, t, findOk, amtOk, geoOk)
    \/ \E writeOk, amtOk, geoOk \in BOOLEAN : VelocityWriteStep(1, writeOk, amtOk, geoOk)
    \/ \E resp \in Responses :
          \* the data store is queried again only in the catch block
          \E findOk, amtOk, geoOk \in (IF resp.factorsOk THEN {TRUE} ELSE BOOLEAN) :
              OracleStep(1, resp, findOk, amtOk, geoOk)
    \/ Return(1)
    \/ used.mgmt < MaxMgmt /\ \E rule \in NewRules : AddFraudRule(rule)
    \/ used.mgmt < MaxMgmt /\ \E u \in RuleUpdates : UpdateFraudRule(u[1], u[2])
    \/ used.mgmt < MaxMgmt
          /\ \E ruleId \in {"custom_rule", "no_such_rule"} : RemoveFraudRule(ruleId)
    \/ used.mgmt < MaxMgmt /\ \E enabled \in BOOLEAN : ToggleFraudRule("high_amount", enabled)
    \/ Tick
    \/ \E k \in Keys : TTLReap(k)

Spec == Init /\ [][Next]_vars

(***************************************************************************)
(* SpecSeq: one client calls checkVelocityFraud again and again, each call *)
(* after the one before has returned.  SpecVel: two clients do, and their  *)
(* calls interleave at the awaits.                                         *)
(***************************************************************************)
InitVel ==
    /\ FRAUD_RULES = BuiltInRules
    /\ velocity = EmptyStore
    /\ ideal = velocity
    /\ txnDb = {}
    /\ clock = StartMs
    /\ aiEnabled = FALSE
    /\ apiKeySet = FALSE
    /\ call = [p \in Clients |-> IdleCall]
    /\ used = [calls |-> 0, mgmt |-> 0]
    /\ admin = NoAdmin
    /\ env = DefaultEnv

NextSeq ==
    \/ \E merchantId \in Merchants, findOk \in BOOLEAN :
          CallCheckVelocityFraud(1, "test@example.com", merchantId, findOk)
    \/ \E writeOk \in BOOLEAN : VelocityWriteStep(1, writeOk, TRUE, TRUE)
    \/ Return(1)
    \/ Tick
    \/ \E k \in Keys : TTLReap(k)

SpecSeq == InitVel /\ [][NextSeq]_vars

NextVel ==
    \/ \E p \in Clients, merchantId \in Merchants, findOk \in BOOLEAN :
          /\ used.calls < MaxInterleaved
          /\ CallCheckVelocityFraud(p, "test@example.com", merchantId, findOk)
    \/ \E p \in Clients, writeOk \in BOOLEAN : VelocityWriteStep(p, writeOk, TRUE, TRUE)
    \/ \E p \in Clients : Return(p)
    \/ Tick
    \/ \E k \in Keys : TTLReap(k)

SpecVel == InitVel /\ [][NextVel]_vars

(***************************************************************************)
(* SpecDet: the amount and geographic detectors called on their own, over  *)
(* every history drawn from a pool of stored transactions.                 *)
(***************************************************************************)
\* createdAt of a stored transaction that leaves the window at the last tick
BoundaryMs == StartMs + TickMs - AMOUNT_ANOMALY_WINDOW_MS

StoredPool ==
    { Stored("merchant_001", 100000, "success", "10.0.0.1", StartMs),
      Stored("merchant_001", 100000, "success", "10.0.0.2", StartMs),
      Stored("merchant_001", 400000, "success", "10.0.0.1", StartMs),
      Stored("merchant_001", 9000000, "failed", "10.0.0.3", StartMs),
      Stored("merchant_001", 8000000, "success", "10.0.0.4", BoundaryMs),
      Stored("merchant_002", 7000000, "success", "", StartMs),
      Stored("merchant_002", 30000, "failed", "10.0.0.6", StartMs),
      [Stored("merchant_001", 50000, "success", "10.0.0.5", StartMs)
          EXCEPT !.customerEmail = "other@example.com"] }

\* the amounts a caller checks: two fixed ones, and the amounts at and just
\* above the two thresholds of the merchant's present statistics
CheckedAmounts(merchantId) ==
    LET stats == AmountStats(txnDb, merchantId, clock)
        n == Cardinality(stats)
        total == SumAmounts(stats) * AMOUNT_ANOMALY_MULTIPLIER
    IN  {1, 250000}
        \cup (IF stats = {} THEN {}
              ELSE { (3 * MaxAmount(stats)) \div 2, (3 * MaxAmount(stats)) \div 2 + 1 }
                   \cup (IF total % n = 0 THEN {total \div n, total \div n + 1} ELSE {}))

Locations == {"10.0.0.9", "10.0.0.1"}
Payers == Customers \cup {"other@example.com"}

CallCheckAmountAnomaly(p, merchantId, amount, ok) ==
    /\ call[p].pc = "idle"
    /\ call' = [call EXCEPT ![p] =
                    [IdleCall EXCEPT
                        !.pc = "done", !.op = "checkAmountAnomaly", !.pass = 1,
                        !.txn = [NoTxn EXCEPT !.merchantId = merchantId,
                                              !.amount = amount],
                        !.now = clock, !.amountOk = ok,
                        !.amountAnomaly =
                            CheckAmountAnomaly(txnDb, merchantId, amount, clock, ok)]]
    /\ UNCHANGED <<FRAUD_RULES, admin, env, velocity, txnDb, clock, aiEnabled, apiKeySet, used, ideal>>

CallCheckGeographicAnomaly(p, customerEmail, transactionLocation, ok) ==
    /\ call[p].pc = "idle"
    /\ call' = [call EXCEPT ![p] =
                    [IdleCall EXCEPT
                        !.pc = "done", !.op = "checkGeographicAnomaly", !.pass = 1,
                        !.txn = [NoTxn EXCEPT !.customerEmail = customerEmail,
                                              !.ipAddress = transactionLocation],
                        !.now = clock, !.geoOk = ok,
                        !.geographicAnomaly =
                            CheckGeographicAnomaly(txnDb, customerEmail,
                                                   transactionLocation, clock, ok)]]
    /\ UNCHANGED <<FRAUD_RULES, admin, env, velocity, txnDb, clock, aiEnabled, apiKeySet, used, ideal>>

InitDet ==
    /\ FRAUD_RULES = BuiltInRules
    /\ velocity = EmptyStore
    /\ ideal = velocity
    /\ txnDb \in SUBSET StoredPool
    /\ clock = StartMs
    /\ aiEnabled = FALSE
    /\ apiKeySet = FALSE
    /\ call = [p \in Clients |-> IdleCall]
    /\ used = [calls |-> 0, mgmt |-> 0]
    /\ admin = NoAdmin
    /\ env = DefaultEnv

NextDet ==
    \/ \E merchantId \in Merchants, ok \in BOOLEAN :
          \E amount \in CheckedAmounts(merchantId) :
              CallCheckAmountAnomaly(1, merchantId, amount, ok)
    \/ \E customerEmail \in Payers, transactionLocation \in Locations, ok \in BOOLEAN :
          CallCheckGeographicAnomaly(1, customerEmail, transactionLocation, ok)
    \/ Return(1)
    \/ Tick

SpecDet == InitDet /\ [][NextDet]_vars

(***************************************************************************)
(* SpecRules: a caller manages the rules, reads them with getFraudRules    *)
(* and changes the array it was given, while time passes.                  *)
(***************************************************************************)
\* the rules the caller adds: two without id, one whose id a built-in rule has
AdminRules ==
    NewRules \cup { Rule("", "Chargeback", 35, TRUE, "always_true"),
                    Rule("high_amount", "Very High Amount", 40, TRUE, "amount_gt_1000000") }

AdminRuleIds == {"high_amount", "unusual_time", "custom_rule", "no_such_rule"}

NextRules ==
    \/ \E rule \in AdminRules : AddFraudRule(rule)
    \/ \E u \in RuleUpdates : UpdateFraudRule(u[1], u[2])
    \/ \E ruleId \in AdminRuleIds : RemoveFraudRule(ruleId)
    \/ \E ruleId \in {"high_amount", "no_such_rule"}, enabled \in BOOLEAN :
          ToggleFraudRule(ruleId, enabled)
    \/ GetFraudRules
    \/ \E m \in Mutations : MutateReturned(m)
    \/ \E k \in 1..MaxRules, updates \in Assignments : AssignToReturned(k, updates)
    \/ Tick

SpecRules == InitVel /\ [][NextRules]_vars

(***************************************************************************)
(* SpecCfg: the module is loaded with some values of process.env, then     *)
(* transactions are analysed under the ENV it built (data store down).     *)
(***************************************************************************)
LoadConfig(flag, review, block, confidence) ==
    /\ ~env.loaded
    /\ env' = LoadedEnv(flag, review, block, confidence)
    /\ UNCHANGED <<FRAUD_RULES, admin, velocity, txnDb, clock, aiEnabled, apiKeySet, call,
                   used, ideal>>

\* analyzeTransaction under the loaded ENV
CallAnalyzeConfigured(p, t) ==
    LET c == StartScoring([IdleCall EXCEPT !.op = "analyzeTransaction", !.pass = 1,
                                           !.txn = t], FALSE, FALSE, FALSE)
        r == ConfiguredResult(env, c.riskScore)
    IN  /\ env.loaded
        /\ ~env.fatal
        /\ call[p].pc = "idle"
        /\ call' = [call EXCEPT ![p] =
                        [c EXCEPT !.result.isFraudulent = r.isFraudulent,
                                  !.result.flagged = r.flagged,
                                  !.result.action = r.action,
                                  !.result.reason = r.reason]]
        /\ UNCHANGED <<FRAUD_RULES, admin, env, velocity, txnDb, clock, aiEnabled,
                       apiKeySet, used, ideal>>

InitCfg ==
    /\ FRAUD_RULES = BuiltInRules
    /\ velocity = EmptyStore
    /\ ideal = velocity
    /\ txnDb = {}
    /\ clock = StartMs
    /\ aiEnabled = FALSE
    /\ apiKeySet = FALSE
    /\ call = [p \in Clients |-> IdleCall]
    /\ used = [calls |-> 0, mgmt |-> 0]
    /\ admin = NoAdmin
    /\ env = NotLoaded

NextCfg ==
    \/ \E flag, review, block \in ThresholdStrings, confidence \in ConfidenceStrings :
          LoadConfig(flag, review, block, confidence)
    \/ \E t \in Transactions : CallAnalyzeConfigured(1, t)
    \/ Return(1)

SpecCfg == InitCfg /\ [][NextCfg]_vars

(***************************************************************************)
(* SpecBatch: the two batch operations.  batchAnalyzeWithAI analyses its   *)
(* items one after the other; AIFraudAnalysisService.batchAnalyze sends    *)
(* the requests of a batch together and awaits them with Promise.all.      *)
(***************************************************************************)
\* const batchSize = 5
BatchSize == 5

\* the next item of batchAnalyzeWithAI: analyzeTransactionWithAI, or in the
\* catch block analyzeTransaction, up to its first await
StartItem(b, op, findOk) ==
    StartScoring([IdleCall EXCEPT !.op = op, !.pass = 1, !.txn = b.items[b.i],
                                  !.batch = b], findOk, TRUE, TRUE)

\* { ...traditionalResult, combinedRiskScore: riskScore.score, aiEnhanced: false }
BatchFallbackResult(result) ==
    [result EXCEPT !.combinedRiskScore = result.riskScore.score, !.aiEnhanced = FALSE]

CallBatchAnalyzeWithAI(p, items, findOk) ==
    LET b == [NoBatch EXCEPT !.kind = "withAI", !.items = items, !.i = 1]
    IN  /\ call[p].pc = "idle"
        /\ used.calls < MaxCalls
        /\ used' = [used EXCEPT !.calls = @ + 1]
        /\ call' = [call EXCEPT ![p] =
                        IF items = <<>>
                        THEN [IdleCall EXCEPT !.pc = "done", !.op = "batchAnalyzeWithAI",
                                              !.batch = [b EXCEPT !.finished = TRUE]]
                        ELSE StartItem(b, "analyzeTransactionWithAI", findOk)]
        /\ UNCHANGED <<FRAUD_RULES, admin, env, velocity, txnDb, clock, aiEnabled,
                       apiKeySet, ideal>>

\* the analysis of the item has ended: push and go on, or the catch block
BatchStep(p, findOk) ==
    LET c == call[p]
        b == c.batch
        pushed == [b EXCEPT !.results =
                      Append(@, [item |-> b.i,
                                 result |-> IF b.stage = "catch"
                                            THEN BatchFallbackResult(c.result)
                                            ELSE c.result])]
    IN  /\ BatchRunning(c)
        /\ c.pc = "done"
        /\ b.kind = "withAI"
        /\ call' = [call EXCEPT ![p] =
                        IF ~c.raised
                        THEN IF b.i = Len(b.items)
                             THEN [c EXCEPT !.batch = [pushed EXCEPT !.finished = TRUE]]
                             ELSE StartItem([pushed EXCEPT !.i = b.i + 1, !.stage = "try"],
                                            "analyzeTransactionWithAI", findOk)
                        ELSE IF b.stage = "try"
                        THEN StartItem([b EXCEPT !.stage = "catch"],
                                       "analyzeTransaction", findOk)
                        \* the error of the catch block leaves batchAnalyzeWithAI
                        ELSE [c EXCEPT !.batch = [b EXCEPT !.finished = TRUE]]]
        /\ UNCHANGED <<FRAUD_RULES, admin, env, velocity, txnDb, clock, aiEnabled,
                       apiKeySet, used, ideal>>

\* a request of the batch in flight: not answered yet
Pending == [filled |-> FALSE, item |-> 0, analysis |-> NoAnalysis]

\* the requests of the batch that starts after item `from`
NewSlots(items, from) == [k \in 1..Min(BatchSize, Len(items) - from) |-> Pending]

CallBatchAnalyze(p, items) ==
    LET b == [NoBatch EXCEPT !.kind = "ai", !.items = items, !.i = 0,
                             !.slots = NewSlots(items, 0)]
    IN  /\ call[p].pc = "idle"
        /\ used.calls < MaxCalls
        /\ used' = [used EXCEPT !.calls = @ + 1]
        /\ call' = [call EXCEPT ![p] =
                        IF items = <<>>
                        THEN [IdleCall EXCEPT !.pc = "done", !.op = "batchAnalyze",
                                              !.batch = [b EXCEPT !.finished = TRUE]]
                        ELSE [IdleCall EXCEPT !.pc = "aiBatch", !.op = "batchAnalyze",
                                              !.batch = b]]
        /\ UNCHANGED <<FRAUD_RULES, admin, env, velocity, txnDb, clock, aiEnabled,
                       apiKeySet, ideal>>

\* the request for item k of the batch is answered; with the last answer
\* Promise.all resolves with the analyses in the order of the requests
AIBatchAnswer(p, k, resp) ==
    LET c == call[p]
        b == c.batch
        slots == [b.slots EXCEPT ![k] = [filled |-> TRUE, item |-> b.i + k,
                                         analysis |-> AIAnalyzeTransaction(resp)]]
        results == b.results \o slots
        from == b.i + Len(slots)
    IN  /\ c.pc = "aiBatch"
        /\ k \in DOMAIN b.slots
        /\ ~b.slots[k].filled
        /\ call' = [call EXCEPT ![p] =
                        IF \E j \in DOMAIN slots : ~slots[j].filled
                        THEN [c EXCEPT !.batch.slots = slots]
                        ELSE IF from < Len(b.items)
                        THEN [c EXCEPT !.batch = [b EXCEPT !.results = results, !.i = from,
                                                           !.slots = NewSlots(b.items, from)]]
                        ELSE [c EXCEPT !.pc = "done",
                                       !.batch = [b EXCEPT !.results = results, !.i = from,
                                                           !.slots = <<>>,
                                                           !.finished = TRUE]]]
        /\ UNCHANGED <<FRAUD_RULES, admin, env, velocity, txnDb, clock, aiEnabled,
                       apiKeySet, used, ideal>>

\* the lists of transactions a caller passes to batchAnalyzeWithAI
BatchTransactions ==
    { Txn(25000, "merchant_002", 2, FALSE), Txn(600000, "merchant_001", 2, TRUE) }

BatchInputs ==
    {<<>>} \cup {<<t>> : t \in BatchTransactions}
           \cup {<<t, u>> : t \in BatchTransactions, u \in BatchTransactions}

\* and to batchAnalyze: up to MaxAIBatch transactions
AIBatchInputs == { [k \in 1..n |-> Txn(25000, "merchant_002", 2, FALSE)] : n \in 0..MaxAIBatch }

\* the answers of the oracle in a batch
BatchResponses ==
    { Response("error", FALSE, -1, TRUE), Response("json", TRUE, 90, TRUE),
      Response("json", TRUE, 90, FALSE) }

InitBatch ==
    /\ FRAUD_RULES = BuiltInRules
    /\ velocity = EmptyStore
    /\ ideal = velocity
    /\ txnDb = {}
    /\ clock = StartMs
    /\ aiEnabled \in BOOLEAN
    /\ apiKeySet = aiEnabled
    /\ call = [p \in Clients |-> IdleCall]
    /\ used = [calls |-> 0, mgmt |-> 0]
    /\ admin = NoAdmin
    /\ env = DefaultEnv

\* no continuation of a batch is due: other code can run
NoItemEnded == \A p \in Clients : ~(BatchRunning(call[p]) /\ call[p].pc = "done")

NextBatch ==
    \/ \E items \in BatchInputs, findOk \in BOOLEAN : CallBatchAnalyzeWithAI(1, items, findOk)
    \/ \E writeOk \in BOOLEAN : VelocityWriteStep(1, writeOk, TRUE, TRUE)
    \/ \E resp \in BatchResponses, findOk \in BOOLEAN : OracleStep(1, resp, findOk, TRUE, TRUE)
    \/ \E findOk \in BOOLEAN : BatchStep(1, findOk)
    \/ \E items \in AIBatchInputs : CallBatchAnalyze(1, items)
    \/ \E k \in 1..BatchSize, resp \in BatchResponses : AIBatchAnswer(1, k, resp)
    \/ Return(1)
    \/ NoItemEnded /\ used.mgmt < MaxBatchMgmt
          /\ AddFraudRule(Rule("custom_rule", "Broken", 10, TRUE, "throws"))
    \/ NoItemEnded /\ used.mgmt < MaxBatchMgmt /\ RemoveFraudRule("custom_rule")

SpecBatch == InitBatch /\ [][NextBatch]_vars

(***************************************************************************)
(* SpecStats: getFraudStatistics, called twice, one call after the other.  *)
(* riskFactors is a plain object: its entries come in the order of         *)
(* Object.entries, integer-like keys first in ascending order, then the    *)
(* other keys in the order of their first assignment.                      *)
(***************************************************************************)
\* .slice(0, 10)
TopFactors == 10

\* new Date(createdAt).getHours(), the process running in UTC
HourOf(ms) == (ms \div 3600000) % 24

\* a stored document passed to analyzeTransaction as a Transaction
DocAsTransaction(x) ==
    [amount |-> x.amount, customerEmail |-> x.customerEmail, merchantId |-> x.merchantId,
     ipAddress |-> x.ipAddress, hour |-> HourOf(x.createdAt), isNewCustomer |-> FALSE]

\* createdAt of a document stored at one o'clock in the afternoon
AfternoonMs == StartMs - 43200000

\* the documents of the collection, in the order of their insertion
StatsPool ==
    << Stored("merchant_001", 50000, "success", "10.0.0.1", AfternoonMs),
       Stored("merchant_001", 1500000, "success", "10.0.0.2", StartMs),
       Stored("merchant_001", 2000000, "failed", "10.0.0.1", BoundaryMs),
       Stored("merchant_002", 25000, "success", "", StartMs) >>

NoRange == [given |-> FALSE, startDate |-> 0, endDate |-> 0]
Ranges == { NoRange, [given |-> TRUE, startDate |-> StartMs, endDate |-> StartMs + TickMs] }

\* TransactionModel.find(match)
FindForStatistics(merchantId, range) ==
    SelectSeq(StatsPool,
              LAMBDA x : /\ x \in txnDb
                         /\ x.merchantId = merchantId
                         /\ range.given => /\ x.createdAt >= range.startDate
                                           /\ x.createdAt <= range.endDate)

\* the value of a key that is a canonical array index, -1 for another key
IntegerKey(key) == IF key = "404" THEN 404 ELSE -1

\* riskFactors[factor] = (riskFactors[factor] || 0) + 1, entries in the
\* order of Object.entries
ObjectIncrement(entries, factor) ==
    IF \E i \in 1..Len(entries) : entries[i].factor = factor
    THEN [i \in 1..Len(entries) |->
             IF entries[i].factor = factor
             THEN [entries[i] EXCEPT !.count = @ + 1] ELSE entries[i]]
    ELSE IF IntegerKey(factor) >= 0
    THEN LET before == Cardinality({i \in 1..Len(entries) :
                                       /\ IntegerKey(entries[i].factor) >= 0
                                       /\ IntegerKey(entries[i].factor) < IntegerKey(factor)})
         IN  SubSeq(entries, 1, before) \o <<[factor |-> factor, count |-> 1]>>
             \o SubSeq(entries, before + 1, Len(entries))
    ELSE Append(entries, [factor |-> factor, count |-> 1])

\* analysis.riskScore.factors.forEach(...), from factor j on
RECURSIVE CountFactors(_, _, _)
CountFactors(entries, factors, j) ==
    IF j > Len(factors) THEN entries
    ELSE CountFactors(ObjectIncrement(entries, factors[j]), factors, j + 1)

\* riskFactors after the loop over the analyses, from analysis k on
RECURSIVE RiskFactorsOf(_, _, _)
RiskFactorsOf(entries, results, k) ==
    IF k > Len(results) THEN entries
    ELSE RiskFactorsOf(CountFactors(entries, results[k].result.riskScore.factors, 1),
                       results, k + 1)

\* .sort((a, b) => b.count - a.count): stable, the first n entries sorted
RECURSIVE SortByCount(_, _)
SortByCount(entries, n) ==
    IF n = 0 THEN <<>>
    ELSE LET sorted == SortByCount(entries, n - 1)
             e == entries[n]
             keep == Cardinality({i \in 1..Len(sorted) : sorted[i].count >= e.count})
         IN  SubSeq(sorted, 1, keep) \o <<e>> \o SubSeq(sorted, keep + 1, Len(sorted))

RECURSIVE SumScores(_, _)
SumScores(results, k) ==
    IF k > Len(results) THEN 0
    ELSE results[k].result.riskScore.score + SumScores(results, k + 1)

\* the object getFraudStatistics returns after the loop
StatisticsOf(results) ==
    LET totalTransactions == Len(results)
        flaggedCount == Cardinality({k \in 1..Len(results) : results[k].result.flagged})
        blockedCount ==
            Cardinality({k \in 1..Len(results) : results[k].result.action = "block"})
        riskFactors == RiskFactorsOf(<<>>, results, 1)
        sorted == SortByCount(riskFactors, Len(riskFactors))
    IN  [totalTransactions |-> totalTransactions,
         flaggedTransactions |-> flaggedCount,
         blockedTransactions |-> blockedCount,
         fraudRate |-> IF totalTransactions > 0
                       THEN Ratio(flaggedCount * 100, totalTransactions) ELSE Ratio(0, 1),
         averageRiskScore |-> IF totalTransactions > 0
                              THEN Ratio(SumScores(results, 1), totalTransactions)
                              ELSE Ratio(0, 1),
         topRiskFactors |-> SubSeq(sorted, 1, Min(TopFactors, Len(sorted)))]

\* getFraudStatistics up to the await of TransactionModel.find
CallGetFraudStatistics(p, merchantId, range) ==
    /\ call[p].pc = "idle"
    /\ used.calls < MaxStatsCalls
    /\ used' = [used EXCEPT !.calls = @ + 1]
    /\ call' = [call EXCEPT ![p] =
                    [IdleCall EXCEPT !.pc = "statsFind", !.op = "getFraudStatistics",
                                     !.txn = [NoTxn EXCEPT !.merchantId = merchantId],
                                     !.batch = [NoBatch EXCEPT !.kind = "stats",
                                                               !.range = range]]]
    /\ UNCHANGED <<FRAUD_RULES, admin, env, velocity, txnDb, clock, aiEnabled,
                   apiKeySet, ideal>>

\* find answers: the loop starts, or there is nothing to analyse
StatsFound(p, findOk) ==
    LET c == call[p]
        transactions == FindForStatistics(c.txn.merchantId, c.batch.range)
        items == [k \in 1..Len(transactions) |-> DocAsTransaction(transactions[k])]
        b == [c.batch EXCEPT !.items = items, !.i = 1]
    IN  /\ c.pc = "statsFind"
        /\ call' = [call EXCEPT ![p] =
                        IF items = <<>>
                        THEN [c EXCEPT !.pc = "done", !.batch = [b EXCEPT !.finished = TRUE],
                                       !.statistics = StatisticsOf(<<>>)]
                        ELSE [StartItem(b, "analyzeTransaction", findOk)
                                 EXCEPT !.statistics = NoStatistics]]
        /\ UNCHANGED <<FRAUD_RULES, admin, env, velocity, txnDb, clock, aiEnabled,
                       apiKeySet, used, ideal>>

\* analyzeTransaction has ended for the item: accumulate and go on, return
\* the statistics after the last item, or pass the error on
StatsStep(p, findOk) ==
    LET c == call[p]
        b == c.batch
        pushed == [b EXCEPT !.results = Append(@, [item |-> b.i, result |-> c.result])]
    IN  /\ BatchRunning(c)
        /\ c.pc = "done"
        /\ b.kind = "stats"
        /\ call' = [call EXCEPT ![p] =
                        IF c.raised
                        THEN [c EXCEPT !.batch = [b EXCEPT !.finished = TRUE]]
                        ELSE IF b.i = Len(b.items)
                        THEN [c EXCEPT !.batch = [pushed EXCEPT !.finished = TRUE],
                                       !.statistics = StatisticsOf(pushed.results)]
                        ELSE StartItem([pushed EXCEPT !.i = b.i + 1],
                                       "analyzeTransaction", findOk)]
        /\ UNCHANGED <<FRAUD_RULES, admin, env, velocity, txnDb, clock, aiEnabled,
                       apiKeySet, used, ideal>>

InitStats ==
    /\ FRAUD_RULES = BuiltInRules
    /\ velocity = EmptyStore
    /\ ideal = velocity
    /\ txnDb \in SUBSET {StatsPool[k] : k \in 1..Len(StatsPool)}
    /\ clock = StartMs
    /\ aiEnabled = FALSE
    /\ apiKeySet = FALSE
    /\ call = [p \in Clients |-> IdleCall]
    /\ used = [calls |-> 0, mgmt |-> 0]
    /\ admin = NoAdmin
    /\ env = DefaultEnv

\* client 2 calls after the call of client 1 has ended
MayCall(p) == IF p = 1 THEN call[2].pc = "idle"
              ELSE call[1].pc = "done" /\ ~BatchRunning(call[1])

NextStats ==
    \/ used.calls = 0 /\ used.mgmt < MaxMgmt
          /\ AddFraudRule(Rule("", "404", 10, TRUE, "always_true"))
    \/ \E p \in Clients, merchantId \in Merchants, range \in Ranges :
          MayCall(p) /\ CallGetFraudStatistics(p, merchantId, range)
    \/ \E p \in Clients : StatsFound(p, TRUE)
    \/ \E p \in Clients : VelocityWriteStep(p, TRUE, TRUE, TRUE)
    \/ \E p \in Clients : StatsStep(p, TRUE)
    \/ Return(2)

SpecStats == InitStats /\ [][NextStats]_vars

(***************************************************************************)
(* Properties.                                                             *)
(***************************************************************************)
\* client p's call of op has returned a value
Returned(p, op) == call[p].pc = "done" /\ call[p].op = op /\ ~call[p].raised

Actions == {"allow", "flag", "review", "block"}

\* the inclusive threshold ladder
Ladder(score) ==
    IF score >= FRAUD_BLOCK_THRESHOLD THEN "block"
    ELSE IF score >= FRAUD_REVIEW_THRESHOLD THEN "review"
    ELSE IF score >= FRAUD_FLAG_THRESHOLD THEN "flag"
    ELSE "allow"

\* the analysis of the result is a high-confidence fraud opinion
HighConfidenceFraud(aiAnalysis) ==
    /\ aiAnalysis.defined
    /\ aiAnalysis.isFraudulent
    /\ aiAnalysis.confidencePct >= AI_CONFIDENCE_THRESHOLD_PCT

\* C1: calculateRiskScore returns a score between 0 and 100, whatever rules
\* were added, updated, removed or toggled before.
C1_ScoreWithinZeroAndHundred ==
    \A p \in Clients :
        Returned(p, "calculateRiskScore") =>
            /\ call[p].riskScore.score >= 0
            /\ call[p].riskScore.score <= SCORE_CAP

\* C2: with AI analysis enabled and a failed oracle call, analyzeTransactionWithAI
\* returns the traditional score as combinedRiskScore and the action of the
\* plain ladder on the traditional score.
C2_FailedOracleGivesTraditional ==
    \A p \in Clients :
        (Returned(p, "analyzeTransactionWithAI") /\ aiEnabled
            /\ call[p].oracle = "failed") =>
            /\ call[p].result.combinedRiskScore = call[p].riskScore.score
            /\ call[p].result.action = Ladder(call[p].riskScore.score)

\* C3: aiEnhanced is true exactly when the oracle call succeeded and its
\* opinion was folded into the combined score.
C3_EnhancedIffOracleSucceeded ==
    \A p \in Clients :
        Returned(p, "analyzeTransactionWithAI") =>
            (call[p].result.aiEnhanced <=>
                (call[p].oracle = "ok" /\ call[p].result.aiAnalysis.defined))

\* the result carries a risk score, a combined score, aiEnhanced and an action
CompleteResult(result) ==
    /\ result.action \in Actions
    /\ result.riskScore.level \in {"low", "medium", "high", "critical"}
    /\ result.combinedRiskScore \in Int
    /\ result.aiEnhanced \in BOOLEAN

\* C4: a call of analyzeTransactionWithAI raises an error only in a step in
\* which the rule pass of calculateRiskScore raises one; every other call
\* ends with a complete result, whatever the oracle answered.
C4_RaisesOnlyWhenScoringFails ==
    [][\A p \in Clients :
          (call'[p].op = "analyzeTransactionWithAI" /\ call'[p].pc = "done"
              /\ call[p].pc # "done") =>
              IF call'[p].raised
              THEN ApplyRules(FRAUD_RULES, 1, call'[p].txn, 0, <<>>).threw
              ELSE CompleteResult(call'[p].result)]_vars

\* the oracle call failed and the caller still got a complete result
C4_Witness ==
    \E p \in Clients :
        /\ Returned(p, "analyzeTransactionWithAI")
        /\ call[p].oracle = "failed"
        /\ CompleteResult(call[p].result)

\* C5: the N-th call that observes a key in one window that started from an
\* absent counter returns false for N <= VELOCITY_MAX_ATTEMPTS and true for
\* every later N; the first call of a window returns false.
C5_VerdictByCallNumber ==
    \A p \in Clients :
        (call[p].pc = "done" /\ call[p].op = "checkVelocityFraud" /\ call[p].storeOk) =>
            LET N == call[p].observed
            IN  /\ N >= 1
                /\ N <= VELOCITY_MAX_ATTEMPTS => ~call[p].velocityResult
                /\ N > VELOCITY_MAX_ATTEMPTS => call[p].velocityResult

\* C6: interleaved calls lose no observation: the stored count of a key is
\* the number of observations completed in its window.
C6_NoObservationLost ==
    \A k \in Keys : velocity[k].present => velocity[k].count = ideal[k].count

\* C7: a call that writes the counter of its key resets an absent or expired
\* counter to count 1, expiresAt = now + window, and returns false; it adds
\* 1 to the count of a present, unexpired counter, leaves expiresAt as it is
\* and returns count > VELOCITY_MAX_ATTEMPTS; no other counter changes, and
\* nothing but such a call and the TTL monitor changes a counter.
C7_CounterTransition ==
    [][\A k \in Keys :
          LET old == velocity[k]
              new == velocity'[k]
              writers == {p \in Clients : /\ call[p].pc = "velWrite"
                                          /\ call'[p].pc = "done"
                                          /\ call'[p].storeOk
                                          /\ call[p].key = k}
          IN  /\ \A p \in writers :
                    LET now == call[p].now
                    IN  IF ~old.present \/ now >= old.expiresAt
                        THEN /\ new = Doc(1, now + VELOCITY_WINDOW_MS)
                             /\ ~call'[p].velocityResult
                        ELSE /\ new.present
                             /\ new.count = old.count + 1
                             /\ new.expiresAt = old.expiresAt
                             /\ call'[p].velocityResult
                                    = (new.count > VELOCITY_MAX_ATTEMPTS)
              /\ (writers = {} /\ new # old) =>
                    (old.present /\ old.expiresAt <= clock /\ new = NoDoc)]_vars

\* round(clamp(0.7 * T + 30 * c, 0, 100)) in exact arithmetic, c in hundredths
ExactCombination(T, confidencePct) ==
    LET tenths == 7 * T + 3 * confidencePct
        clamped == Max(0, Min(1000, tenths))
    IN  FloorDiv(clamped + 5, 10)

\* C8: with an AI opinion of confidence c folded in, combinedRiskScore is
\* round(clamp(0.7 * T + 30 * c, 0, 100)), an integer in 0..100; without an
\* AI opinion it is T.
C8_CombinedScoreFormula ==
    \A p \in Clients :
        Returned(p, "analyzeTransactionWithAI") =>
            LET T == call[p].riskScore.score
                result == call[p].result
            IN  IF result.aiAnalysis.defined
                THEN /\ result.combinedRiskScore
                            = ExactCombination(T, result.aiAnalysis.confidencePct)
                     /\ result.combinedRiskScore \in 0..100
                ELSE result.combinedRiskScore = T

\* C9: with a high-confidence fraud opinion in the result the action is block,
\* review or flag by the combined score, never allow, and the reason names
\* the AI; traditional score 20 with confidence 0.9 gives 41 and flag.
C9_HighConfidenceFraudAction ==
    \A p \in Clients :
        (Returned(p, "analyzeTransactionWithAI")
            /\ HighConfidenceFraud(call[p].result.aiAnalysis)) =>
            LET result == call[p].result
                combined == result.combinedRiskScore
            IN  /\ result.action =
                       (IF combined >= FRAUD_BLOCK_THRESHOLD THEN "block"
                        ELSE IF combined >= FRAUD_REVIEW_THRESHOLD THEN "review"
                        ELSE "flag")
                /\ result.action # "allow"
                /\ result.reason \in {"AI detected high-confidence fraud",
                                      "AI detected suspicious activity",
                                      "AI detected potential risk"}
                /\ (call[p].riskScore.score = 20 /\ result.aiAnalysis.confidencePct = 90)
                       => (combined = 41 /\ result.action = "flag")

\* traditional score 20, fraud opinion of confidence 0.9: combined 41, flag
C9_Witness ==
    \E p \in Clients :
        /\ Returned(p, "analyzeTransactionWithAI")
        /\ HighConfidenceFraud(call[p].result.aiAnalysis)
        /\ call[p].riskScore.score = 20
        /\ call[p].result.aiAnalysis.confidencePct = 90
        /\ call[p].result.combinedRiskScore = 41
        /\ call[p].result.action = "flag"

\* C10: without a high-confidence fraud opinion the action is the inclusive
\* ladder on the combined score; analyzeTransaction applies the same ladder
\* to the traditional score (20 gives allow, 30 gives flag).
C10_PlainLadder ==
    \A p \in Clients :
        /\ (Returned(p, "analyzeTransactionWithAI")
               /\ ~HighConfidenceFraud(call[p].result.aiAnalysis)) =>
               call[p].result.action = Ladder(call[p].result.combinedRiskScore)
        /\ Returned(p, "analyzeTransaction") =>
               /\ call[p].result.action = Ladder(call[p].riskScore.score)
               /\ call[p].riskScore.score = 20 => call[p].result.action = "allow"
               /\ call[p].riskScore.score = 30 => call[p].result.action = "flag"

\* a combined score of exactly the flag threshold is flagged
C10_Witness ==
    \E p \in Clients :
        /\ Returned(p, "analyzeTransactionWithAI")
        /\ ~HighConfidenceFraud(call[p].result.aiAnalysis)
        /\ call[p].result.combinedRiskScore = FRAUD_FLAG_THRESHOLD
        /\ call[p].result.action = "flag"

\* the level the breakpoints give for a score
LevelFor(score) ==
    IF score >= 80 THEN "critical"
    ELSE IF score >= 60 THEN "high"
    ELSE IF score >= 40 THEN "medium"
    ELSE "low"

\* the RiskScore a returned call of a public operation carries
ReturnedRiskScores ==
    { call[p].riskScore : p \in { q \in Clients : Returned(q, "calculateRiskScore") } }
    \cup { call[p].result.riskScore :
             p \in { q \in Clients : \/ Returned(q, "analyzeTransaction")
                                     \/ Returned(q, "analyzeTransactionWithAI") } }

\* C11: in every RiskScore that calculateRiskScore, analyzeTransaction or
\* analyzeTransactionWithAI returns, level is the level the breakpoints
\* 80 / 60 / 40 give for the score of that same RiskScore.
C11_LevelMatchesScore ==
    \A riskScore \in ReturnedRiskScores : riskScore.level = LevelFor(riskScore.score)

\* the sum of the weights of the enabled rules of a registry whose condition
\* holds for t, from rule i on
RECURSIVE FiringWeight(_, _, _)
FiringWeight(rules, i, t) ==
    IF i > Len(rules) THEN 0
    ELSE (IF rules[i].enabled /\ ConditionHolds(rules[i].condition, t)
          THEN rules[i].weight ELSE 0)
         + FiringWeight(rules, i + 1, t)

ScoringOps == {"calculateRiskScore", "analyzeTransaction", "analyzeTransactionWithAI"}

\* in this step the call of client p runs the rule pass of calculateRiskScore
RulePassRuns(p) ==
    /\ call[p].pc \in {"idle", "oracle"}
    /\ call'[p].op \in ScoringOps
    /\ ~call'[p].raised
    /\ \/ call'[p].pc = "velWrite"
       \/ call'[p].pc = "done" /\ call'[p].pass # call[p].pass

\* in this step calculateRiskScore returns its RiskScore in the call of p
ScoreReturned(p) ==
    /\ call'[p].op \in ScoringOps
    /\ ~call'[p].raised
    /\ \/ call[p].pc = "velWrite" /\ call'[p].pc \in {"done", "oracle"}
       \/ RulePassRuns(p) /\ call'[p].pc = "done"

\* the weight of a detector that has triggered
Extra(triggered, weight) == IF triggered THEN weight ELSE 0

\* the built-in registry, never changed, and no stored transaction
BuiltInNoHistory(p) ==
    /\ used.mgmt = 0
    /\ txnDb = {}
    /\ ~call[p].velocityResult
    /\ Returned(p, "analyzeTransaction")

\* C12: the score calculateRiskScore returns is min(100, sum of the weights
\* of the enabled rules whose condition holds + 30 if the velocity detector
\* triggers + 25 if the amount detector does + 20 if the geographic one
\* does); a disabled rule adds nothing.  With the built-in rules and no
\* history, 1,500,000 from a new customer at a normal hour scores 50
\* (medium, review) and 25,000 at 2am scores 15 (low, allow).
C12_ScoreIsCappedSum ==
    [][\A p \in Clients :
        /\ RulePassRuns(p) /\ call'[p].pc = "velWrite"
              => call'[p].totalScore = FiringWeight(FRAUD_RULES, 1, call'[p].txn)
        /\ ScoreReturned(p)
              => call'[p].riskScore.score =
                    Min(100,
                        (IF call[p].pc = "velWrite" THEN call[p].totalScore
                         ELSE FiringWeight(FRAUD_RULES, 1, call'[p].txn))
                        + Extra(call'[p].velocityResult, 30)
                        + Extra(call'[p].amountAnomaly, 25)
                        + Extra(call'[p].geographicAnomaly, 20))
        /\ BuiltInNoHistory(p) /\ call[p].txn = Txn(1500000, "merchant_001", 12, TRUE)
              => /\ call[p].result.riskScore.score = 50
                 /\ call[p].result.riskScore.level = "medium"
                 /\ call[p].result.action = "review"
        /\ BuiltInNoHistory(p) /\ call[p].txn = Txn(25000, "merchant_002", 2, FALSE)
              => /\ call[p].result.riskScore.score = 15
                 /\ call[p].result.riskScore.level = "low"
                 /\ call[p].result.action = "allow"
      ]_vars

\* calculateRiskScore has returned 100 for a total above 100 while a
\* disabled rule's condition held
C12_Witness ==
    /\ Returned(1, "calculateRiskScore")
    /\ call[1].totalScore > 100
    /\ call[1].riskScore.score = 100
    /\ \E i \in 1..Len(FRAUD_RULES) :
          /\ ~FRAUD_RULES[i].enabled
          /\ ConditionHolds(FRAUD_RULES[i].condition, call[1].txn)

\* C13: a rule whose condition raises an error counts as not fired, for that
\* rule only: every call of calculateRiskScore returns a RiskScore and no
\* error of a rule condition reaches the caller.
C13_ThrowingRuleIsSkipped ==
    \A p \in Clients :
        call[p].pc = "done" /\ call[p].op = "calculateRiskScore"
            => /\ ~call[p].raised
               /\ call[p].riskScore # NoRiskScore

\* some enabled rule of the registry has a condition that raises for t
SomeRuleThrows(rules, t) ==
    \E i \in 1..Len(rules) : rules[i].enabled /\ ConditionThrows(rules[i].condition, t)

\* C14: a detector whose query or update of the data store fails returns
\* false and raises nothing: the failure adds nothing to the score, the
\* detector's factor is absent, and calculateRiskScore does not fail because
\* of it (it raises only when a rule condition raises).
C14_DetectorsFailSafe ==
    [][\A p \in Clients :
        /\ ScoreReturned(p)
              => /\ ~call'[p].storeOk => ~call'[p].velocityResult
                 /\ ~call'[p].amountOk => ~call'[p].amountAnomaly
                 /\ ~call'[p].geoOk => ~call'[p].geographicAnomaly
                 /\ call'[p].totalScore =
                        (IF call[p].pc = "velWrite" THEN call[p].totalScore
                         ELSE FiringWeight(FRAUD_RULES, 1, call'[p].txn))
                        + Extra(call'[p].storeOk /\ call'[p].velocityResult, 30)
                        + Extra(call'[p].amountOk /\ call'[p].amountAnomaly, 25)
                        + Extra(call'[p].geoOk /\ call'[p].geographicAnomaly, 20)
        /\ call'[p].raised /\ ~call[p].raised
              => SomeRuleThrows(FRAUD_RULES, call'[p].txn)
      ]_vars

\* calculateRiskScore has returned the rules' total although all three
\* detectors' data-store calls failed, with a history that is anomalous
C14_Witness ==
    /\ Returned(1, "calculateRiskScore")
    /\ ~call[1].storeOk /\ ~call[1].amountOk /\ ~call[1].geoOk
    /\ AmountAnomaly(txnDb, call[1].txn.merchantId, call[1].txn.amount, clock)
    /\ GeographicAnomaly(txnDb, call[1].txn.customerEmail, call[1].txn.ipAddress, clock)
    /\ call[1].riskScore.score = FiringWeight(FRAUD_RULES, 1, call[1].txn)
    /\ call[1].riskScore.score > 0

\* the merchant's successful transactions created in the 24 h before now
SuccessfulInWindow(merchantId, now) ==
    {x \in txnDb : /\ x.merchantId = merchantId
                   /\ x.status = "success"
                   /\ now - x.createdAt <= 86400000}

RECURSIVE Total(_)
Total(S) == IF S = {} THEN 0
            ELSE LET x == CHOOSE y \in S : \A z \in S : z.createdAt <= y.createdAt
                 IN  x.amount + Total(S \ {x})

Largest(S) == CHOOSE m \in {x.amount : x \in S} : \A x \in S : m >= x.amount

\* amount > mean(S) * k, the mean being Total(S) / |S|
AboveMeanTimes(amount, S, k) == amount * Cardinality(S) > Total(S) * k

\* amount > 1.5 * max(S)
AboveMaxTimesOneAndHalf(amount, S) == 2 * amount > 3 * Largest(S)

\* client p's call of checkAmountAnomaly has returned, its query answered
AmountChecked(p) == Returned(p, "checkAmountAnomaly") /\ call[p].amountOk

\* C15: checkAmountAnomaly returns false when the merchant has no successful
\* transaction in the window, and otherwise true exactly when the amount is
\* above mean * AMOUNT_ANOMALY_MULTIPLIER or above 1.5 * max, mean and max
\* taken over the merchant's successful transactions in the window only.
C15_AmountRule ==
    \A p \in Clients :
        AmountChecked(p) =>
            LET S == SuccessfulInWindow(call[p].txn.merchantId, call[p].now)
                amount == call[p].txn.amount
            IN  call[p].amountAnomaly =
                    IF S = {} THEN FALSE
                    ELSE \/ AboveMeanTimes(amount, S, AMOUNT_ANOMALY_MULTIPLIER)
                         \/ AboveMaxTimesOneAndHalf(amount, S)

\* the detector has returned true for an amount that the merchant's failed
\* and out-of-window transactions, had they counted, would have covered
C15_Witness ==
    /\ AmountChecked(1)
    /\ call[1].amountAnomaly
    /\ LET all == {x \in txnDb : x.merchantId = call[1].txn.merchantId}
           S == SuccessfulInWindow(call[1].txn.merchantId, call[1].now)
       IN  /\ \E x \in all : x.status = "failed"
           /\ \E x \in all \ S : x.status = "success"
           /\ \E x \in txnDb \ all : TRUE
           /\ ~AboveMeanTimes(call[1].txn.amount, all, AMOUNT_ANOMALY_MULTIPLIER)
           /\ ~AboveMaxTimesOneAndHalf(call[1].txn.amount, all)

\* the mean of S times k is a whole number and amount is that number plus d
AtMeanTimesPlus(amount, S, k, d) ==
    /\ S # {}
    /\ (Total(S) * k) % Cardinality(S) = 0
    /\ amount = (Total(S) * k) \div Cardinality(S) + d

\* C16 (as stated): with mean M and multiplier k, checkAmountAnomaly returns
\* true for the amount M*k + 1 and false for the amount exactly M*k.
C16_StrictAtMeanTimesK ==
    \A p \in Clients :
        AmountChecked(p) =>
            LET S == SuccessfulInWindow(call[p].txn.merchantId, call[p].now)
                amount == call[p].txn.amount
            IN  /\ AtMeanTimesPlus(amount, S, AMOUNT_ANOMALY_MULTIPLIER, 1)
                      => call[p].amountAnomaly
                /\ AtMeanTimesPlus(amount, S, AMOUNT_ANOMALY_MULTIPLIER, 0)
                      => ~call[p].amountAnomaly

\* C16 (amended): checkAmountAnomaly returns true for the amount M*k + 1,
\* and false for the amount exactly M*k provided M*k is not above 1.5 times
\* the maximum; it returns true for M*k when M*k is above 1.5 times the
\* maximum.
C16_StrictUnlessAboveMax ==
    \A p \in Clients :
        AmountChecked(p) =>
            LET S == SuccessfulInWindow(call[p].txn.merchantId, call[p].now)
                amount == call[p].txn.amount
            IN  /\ AtMeanTimesPlus(amount, S, AMOUNT_ANOMALY_MULTIPLIER, 1)
                      => call[p].amountAnomaly
                /\ AtMeanTimesPlus(amount, S, AMOUNT_ANOMALY_MULTIPLIER, 0)
                      => (call[p].amountAnomaly = AboveMaxTimesOneAndHalf(amount, S))

\* the detector has returned false for the amount exactly M*k
C16_Witness ==
    /\ AmountChecked(1)
    /\ ~call[1].amountAnomaly
    /\ AtMeanTimesPlus(call[1].txn.amount,
                       SuccessfulInWindow(call[1].txn.merchantId, call[1].now),
                       AMOUNT_ANOMALY_MULTIPLIER, 0)

\* the distinct non-empty ipAddress values among the customer's stored
\* transactions of the 24 h before now, whatever their merchant and status
KnownLocations(customerEmail, now) ==
    { ip \in {x.ipAddress : x \in txnDb} :
        /\ ip # ""
        /\ \E x \in txnDb : /\ x.ipAddress = ip
                            /\ x.customerEmail = customerEmail
                            /\ now - x.createdAt <= 86400000 }

\* client p's call of checkGeographicAnomaly has returned, its query answered
GeoChecked(p) == Returned(p, "checkGeographicAnomaly") /\ call[p].geoOk

\* C17: checkGeographicAnomaly returns true exactly when the customer's
\* transactions in the window (any merchant, any status) carry more than
\* GEO_ANOMALY_MAX_LOCATIONS distinct non-empty ipAddress values; the
\* location of the checked transaction takes no part.  With the maximum 2,
\* two distinct addresses give false and three give true.
C17_GeoRule ==
    \A p \in Clients :
        GeoChecked(p) =>
            LET n == Cardinality(KnownLocations(call[p].txn.customerEmail, call[p].now))
            IN  /\ call[p].geographicAnomaly = (n > GEO_ANOMALY_MAX_LOCATIONS)
                /\ n = 2 => ~call[p].geographicAnomaly
                /\ n = 3 => call[p].geographicAnomaly

\* the detector has returned false for a customer with two known addresses
\* on a transaction from a third one, with stored transactions that are
\* failed, of another merchant, without address and of another customer
C17_Witness ==
    /\ GeoChecked(1)
    /\ ~call[1].geographicAnomaly
    /\ Cardinality(KnownLocations(call[1].txn.customerEmail, call[1].now)) = 2
    /\ call[1].txn.ipAddress \notin KnownLocations(call[1].txn.customerEmail, call[1].now)
    /\ \E x, y \in txnDb : /\ x.customerEmail = call[1].txn.customerEmail
                           /\ y.customerEmail = call[1].txn.customerEmail
                           /\ x.status = "failed"
                           /\ x.merchantId # y.merchantId
    /\ \E x \in txnDb : x.ipAddress = ""
    /\ \E x \in txnDb : x.customerEmail # call[1].txn.customerEmail

\* this step is the management call op, and it returns true
ReturnsTrue(op) ==
    /\ used'.mgmt = used.mgmt + 1
    /\ admin'.op = op
    /\ admin'.returned

\* this step is the management call op with an id no rule of the registry has
UnknownId(op) ==
    /\ used'.mgmt = used.mgmt + 1
    /\ admin'.op = op
    /\ \A i \in 1..Len(FRAUD_RULES) : FRAUD_RULES[i].id # admin'.ruleId

\* after is before without its entry k
WithoutEntry(before, after, k) ==
    /\ Len(after) = Len(before) - 1
    /\ \A i \in 1..Len(after) : after[i] = IF i < k THEN before[i] ELSE before[i + 1]

\* C18: after addFraudRule(rule) returns true, the rules getFraudRules
\* returns are the rules before followed by the rule; after
\* removeFraudRule(id) returns true, they hold no rule with that id and are
\* the rules before without one entry, the others in their order.
C18_AddRemoveRoundTrip ==
    [][/\ ReturnsTrue("addFraudRule")
            => /\ Len(FRAUD_RULES') = Len(FRAUD_RULES) + 1
               /\ SubSeq(FRAUD_RULES', 1, Len(FRAUD_RULES)) = FRAUD_RULES
               /\ FRAUD_RULES'[Len(FRAUD_RULES')].id = admin'.ruleId
       /\ ReturnsTrue("removeFraudRule")
            => /\ \A i \in 1..Len(FRAUD_RULES') : FRAUD_RULES'[i].id # admin'.ruleId
               /\ \E k \in 1..Len(FRAUD_RULES) : WithoutEntry(FRAUD_RULES, FRAUD_RULES', k)
       /\ ReturnsTrue("getFraudRules") => HeldRules' = FRAUD_RULES'
      ]_vars

\* C19: updateFraudRule, toggleFraudRule and removeFraudRule called with an
\* id that no rule of the registry has return false, raise nothing and
\* leave the registry as it was.
C19_UnknownIdIsRefused ==
    [][\A op \in {"updateFraudRule", "toggleFraudRule", "removeFraudRule"} :
          UnknownId(op) => /\ ~admin'.returned
                           /\ FRAUD_RULES' = FRAUD_RULES
      ]_vars

\* removeFraudRule has returned false for an id that no rule has, on a
\* registry that rule management has changed before
C19_Witness ==
    /\ admin.op = "removeFraudRule"
    /\ ~admin.returned
    /\ \A i \in 1..Len(FRAUD_RULES) : FRAUD_RULES[i].id # admin.ruleId
    /\ FRAUD_RULES # BuiltInRules
    /\ Len(FRAUD_RULES) > 0

\* this step is the caller changing the array getFraudRules gave it
CallerMutates == used'.mgmt = used.mgmt + 1 /\ admin'.op = "mutate"

\* C20: getFraudRules returns a copy of the registry's rules: adding to,
\* removing from, reordering or replacing entries of the returned sequence
\* leaves the registry as it was.
C20_SnapshotIsACopy ==
    [][/\ ReturnsTrue("getFraudRules") => HeldRules' = FRAUD_RULES
       /\ CallerMutates => /\ FRAUD_RULES' = FRAUD_RULES
                           /\ HeldRules' = Mutated(HeldRules, admin'.ruleId)
      ]_vars

\* the caller has changed the array it was given, which now differs from
\* the registry
C20_Witness ==
    /\ admin.op = "mutate"
    /\ admin.held # "none"
    /\ HeldRules # FRAUD_RULES
    /\ Len(FRAUD_RULES) >= 6

\* C21: whatever addFraudRule, updateFraudRule, removeFraudRule and
\* toggleFraudRule calls were made, no two rules of the registry have the
\* same id; a rule added without id gets an id no rule of the registry has.
C21_RuleIdsAreUnique ==
    \A i, j \in 1..Len(FRAUD_RULES) :
        FRAUD_RULES[i].id = FRAUD_RULES[j].id => i = j

\* the thresholds of cfg satisfy 0 <= FLAG < REVIEW < BLOCK <= 100 and
\* 0 <= AI_CONFIDENCE_THRESHOLD <= 1
ValidConfig(cfg) ==
    /\ ~cfg.FRAUD_FLAG_THRESHOLD.nan /\ ~cfg.FRAUD_REVIEW_THRESHOLD.nan
    /\ ~cfg.FRAUD_BLOCK_THRESHOLD.nan /\ ~cfg.AI_CONFIDENCE_THRESHOLD.nan
    /\ 0 <= cfg.FRAUD_FLAG_THRESHOLD.v
    /\ cfg.FRAUD_FLAG_THRESHOLD.v < cfg.FRAUD_REVIEW_THRESHOLD.v
    /\ cfg.FRAUD_REVIEW_THRESHOLD.v < cfg.FRAUD_BLOCK_THRESHOLD.v
    /\ cfg.FRAUD_BLOCK_THRESHOLD.v <= 100
    /\ 0 <= cfg.AI_CONFIDENCE_THRESHOLD.v
    /\ cfg.AI_CONFIDENCE_THRESHOLD.v <= 100

\* C22: the configuration is validated when it is loaded: thresholds that
\* break 0 <= FLAG < REVIEW < BLOCK <= 100 or 0 <= AI_CONFIDENCE_THRESHOLD
\* <= 1 end the start-up with a fatal error, so every analysis that has run
\* ran under thresholds that satisfy them.
C22_ConfigValidatedAtLoad ==
    /\ env.loaded /\ ~env.fatal => ValidConfig(env)
    /\ \A p \in Clients : Returned(p, "analyzeTransaction") => ValidConfig(env)

\* C23: batchAnalyzeWithAI and AIFraudAnalysisService.batchAnalyze end, for
\* every list of transactions, with one result per transaction in the order
\* of the list, also when the analysis of an item fails: no error leaves
\* the batch operation and the later items are still analysed.
C23_BatchOneResultPerItem ==
    \A p \in Clients :
        LET b == call[p].batch
        IN  b.kind # "none" /\ b.finished
                => /\ ~call[p].raised
                   /\ Len(b.results) = Len(b.items)
                   /\ \A k \in 1..Len(b.results) : b.results[k].item = k


\* the calls of getFraudStatistics that have returned their statistics
StatisticsReturned(p) ==
    /\ call[p].batch.kind = "stats"
    /\ call[p].batch.finished
    /\ ~call[p].raised

\* the factor names of the analyses, in the order they were met
RECURSIVE FactorStream(_, _)
FactorStream(results, k) ==
    IF k > Len(results) THEN <<>>
    ELSE results[k].result.riskScore.factors \o FactorStream(results, k + 1)

Occurrences(stream, f) == Cardinality({i \in 1..Len(stream) : stream[i] = f})
FirstMet(stream, f) == CHOOSE i \in 1..Len(stream) :
                           stream[i] = f /\ \A j \in 1..(i - 1) : stream[j] # f

\* top lists distinct factors of the stream with their counts, by
\* decreasing count, equal counts in the order the factors were first met
RankedFactors(top, stream) ==
    LET names == {stream[i] : i \in 1..Len(stream)}
    IN  /\ Len(top) = Min(10, Cardinality(names))
        /\ \A i \in 1..Len(top) :
              /\ top[i].factor \in names
              /\ top[i].count = Occurrences(stream, top[i].factor)
              /\ \A f \in names :
                    Occurrences(stream, f) > top[i].count
                        => \E j \in 1..(i - 1) : top[j].factor = f
        /\ \A i, j \in 1..Len(top) :
              i < j => \/ top[i].count > top[j].count
                       \/ /\ top[i].count = top[j].count
                          /\ FirstMet(stream, top[i].factor) < FirstMet(stream, top[j].factor)

\* C24: the statistics getFraudStatistics returns over the n analysed
\* transactions of the merchant are totalTransactions = n, flaggedTransactions
\* = the number with a score of at least the review threshold,
\* blockedTransactions = the number with action block, fraudRate = flagged / n
\* * 100 and averageRiskScore = the mean score (both 0 for n = 0), and
\* topRiskFactors = at most 10 factors with their counts by decreasing count,
\* equal counts in the order the factors were first met.
C24_StatisticsAreTheAggregates ==
    \A p \in Clients :
        StatisticsReturned(p) =>
            LET s == call[p].statistics
                results == call[p].batch.results
                n == Len(call[p].batch.items)
                scores == [k \in 1..Len(results) |-> results[k].result.riskScore.score]
                flagged == Cardinality({k \in 1..Len(results) :
                                           scores[k] >= FRAUD_REVIEW_THRESHOLD})
                blocked == Cardinality({k \in 1..Len(results) :
                                           results[k].result.action = "block"})
            IN  /\ Len(results) = n
                /\ s.totalTransactions = n
                /\ s.flaggedTransactions = flagged
                /\ s.blockedTransactions = blocked
                /\ IF n = 0
                   THEN s.fraudRate.num = 0 /\ s.averageRiskScore.num = 0
                   ELSE /\ s.fraudRate.num * n = flagged * 100 * s.fraudRate.den
                        /\ s.averageRiskScore.num * n
                               = SumScores(results, 1) * s.averageRiskScore.den
                /\ RankedFactors(s.topRiskFactors, FactorStream(results, 1))


\* both calls of getFraudStatistics have returned, for the same merchant and range
SameQuestionTwice ==
    /\ StatisticsReturned(1) /\ StatisticsReturned(2)
    /\ call[1].txn.merchantId = call[2].txn.merchantId
    /\ call[1].batch.range = call[2].batch.range

\* C25: two calls of getFraudStatistics with the same merchant and range,
\* over the same stored transactions and the same rules, return identical
\* statistics.
C25_StatisticsAreDeterministic ==
    SameQuestionTwice => call[1].statistics = call[2].statistics


\* an AI-enhanced result for a traditional score of 60 and a confidence of 0.5
SixtyAndHalf(p) ==
    /\ Returned(p, "analyzeTransactionWithAI")
    /\ call[p].result.aiEnhanced
    /\ call[p].riskScore.score = 60
    /\ call[p].result.aiAnalysis.confidencePct = 50

\* C26 as stated: traditional score 60 and AI confidence 0.5 give the
\* combined score 53.
C26_CombinedIs53 ==
    \A p \in Clients : SixtyAndHalf(p) => call[p].result.combinedRiskScore = 53

\* C26: with AI enabled, traditional score 60 and AI confidence 0.5 give the
\* combined score 57, that is round(0.7 * 60 + 30 * 0.5).
C26_CombinedIs57 ==
    \A p \in Clients :
        SixtyAndHalf(p) => /\ call[p].result.combinedRiskScore = 57
                           /\ call[p].result.riskScore.score = 57

C26_Witness ==
    \E p \in Clients : SixtyAndHalf(p) /\ aiEnabled /\ call[p].oracleCalls = 1


\* C27: within one analyzeTransactionWithAI call the AI service is called at
\* most once, only when AI analysis is enabled and only once the traditional
\* risk score is computed; after its answer, failed or not, it is not called
\* again, also when the catch block recomputes the traditional result.
C27_OracleCalledAtMostOnce ==
    \A p \in Clients :
        LET c == call[p]
        IN  /\ c.oracleCalls <= 1
            /\ c.oracleCalls > 0 =>
                   /\ aiEnabled
                   /\ c.op = "analyzeTransactionWithAI"
                   /\ c.riskScore # NoRiskScore
            /\ c.pc = "oracle" => c.oracleCalls = 1 /\ c.pass = 1 /\ c.oracle = "none"
            /\ c.oracle # "none" => c.oracleCalls = 1 /\ c.pc # "oracle"
            /\ c.pass = 2 => c.oracleCalls = 1 /\ c.oracle # "none"

\* the catch block has recomputed the result after the one AI call
C27_Witness ==
    \E p \in Clients :
        /\ Returned(p, "analyzeTransactionWithAI")
        /\ call[p].pass = 2
        /\ ~call[p].result.aiEnhanced
        /\ call[p].oracleCalls = 1


\* C28: in every result analyzeTransaction or analyzeTransactionWithAI
\* returns, isFraudulent is true exactly when the action is block, and
\* flagged is true exactly when the action is review or block.
C28_FlagsAgreeWithAction ==
    \A p \in Clients :
        (Returned(p, "analyzeTransaction") \/ Returned(p, "analyzeTransactionWithAI")) =>
            LET result == call[p].result
            IN  /\ result.isFraudulent <=> result.action = "block"
                /\ result.flagged <=> result.action \in {"review", "block"}


\* C29: a call of analyzeTransaction or analyzeTransactionWithAI that returns
\* a result, the velocity store having answered, has made exactly one
\* velocity observation for the key of its transaction, whichever path it
\* took.
C29_OneObservationPerAnalysis ==
    \A p \in Clients :
        /\ \/ Returned(p, "analyzeTransaction")
           \/ Returned(p, "analyzeTransactionWithAI")
        /\ call[p].storeOk
        => call[p].observations = 1


\* this step is one of the four management calls
ManagementCall ==
    /\ used'.mgmt = used.mgmt + 1
    /\ admin'.op \in {"addFraudRule", "updateFraudRule", "removeFraudRule", "toggleFraudRule"}

\* the id, weight, enabled flag and condition of the registered rules
Registered(rules) ==
    [i \in 1..Len(rules) |->
        [id |-> rules[i].id, weight |-> rules[i].weight, enabled |-> rules[i].enabled,
         condition |-> rules[i].condition]]

\* C30: the registry changes only through addFraudRule, updateFraudRule,
\* removeFraudRule and toggleFraudRule: any other step, also the caller
\* assigning to a field of a rule that getFraudRules returned, leaves the id,
\* weight, enabled flag and condition of every registered rule unchanged.
C30_OnlyManagementChangesRules ==
    [][ManagementCall \/ Registered(FRAUD_RULES') = Registered(FRAUD_RULES)]_vars

====
